---------------------------- MODULE Spec2Model ----------------------------
(***************************************************************************)
(* A model of the cubio image-cube core: the storage layouts               *)
(* (cube_size_tools.py, types.py), the affine geotransform                 *)
(* (geotransform.py), the compound mask (cube_mask.py), the CubeData       *)
(* object assembled from the mix-ins of cube_data/, the validators of      *)
(* CubeContext (cube_context.py) and the georeferencing pipeline of        *)
(* geotools/: control points and their image offset, the backplane         *)
(* interpolated from them and the resampling of a swath.                   *)
(*                                                                         *)
(* Conventions.  An optional value is a sequence of length 0 (None) or 1.  *)
(* Array axes and indices are 0-based as in the source; a shape, a dims    *)
(* tuple and an index are TLA+ sequences, so axis a is element a + 1.      *)
(* A real number is an exact fraction [n, d] in lowest terms with d > 0:   *)
(* the model follows the arithmetic of the source, not its rounding.       *)
(***************************************************************************)
EXTENDS Integers, Sequences, FiniteSets, TLC

\* The extents of the cubes are taken around MaxDim.
MaxDim == 2

None == <<>>

Some(x) == <<x>>

IsSome(o) == Len(o) = 1

Get(o) == o[1]

(***************************************************************************)
(* Storage layouts                                                         *)
(***************************************************************************)
cube_array_formats == {"BIL", "BIP", "BSQ"}

CubeSize(nrows, ncolumns, nbands) ==
    [nrows |-> nrows, ncolumns |-> ncolumns, nbands |-> nbands]

as_tuple_swapped(size, interleave) ==
    CASE interleave = "BIL" -> <<size.nrows, size.nbands, size.ncolumns>>
      [] interleave = "BIP" -> <<size.nrows, size.ncolumns, size.nbands>>
      [] interleave = "BSQ" -> <<size.nbands, size.nrows, size.ncolumns>>

as_tuple(size, interleave) ==
    CASE interleave = "BIL" -> <<size.nrows, size.nbands, size.ncolumns>>
      [] interleave = "BIP" -> <<size.nrows, size.ncolumns, size.nbands>>
      [] interleave = "BSQ" -> <<size.nbands, size.ncolumns, size.nrows>>

\* Tuple unpacking of arr.shape: an array that is not rank 3 raises ValueError.
get_cube_size(shape, format) ==
    IF Len(shape) # 3 THEN [err |-> "ValueError", size |-> None]
    ELSE [err |-> "ok",
          size |-> Some(CASE format = "BIL" -> CubeSize(shape[1], shape[3], shape[2])
                          [] format = "BIP" -> CubeSize(shape[1], shape[2], shape[3])
                          [] format = "BSQ" -> CubeSize(shape[3], shape[2], shape[1]))]

FORMAT_INDICES ==
    [BIL |-> [row |-> 0, col |-> 2, band |-> 1],
     BIP |-> [row |-> 0, col |-> 1, band |-> 2],
     BSQ |-> [row |-> 2, col |-> 1, band |-> 0]]

\* The indices of an array of the given shape, of any rank.
RECURSIVE IdxN(_)
IdxN(shape) ==
    IF Len(shape) = 0 THEN {<<>>}
    ELSE {<<i>> \o t : i \in 0..(shape[1] - 1), t \in IdxN(Tail(shape))}

\* An xarray DataArray without index coordinates: named axes, their
\* extents, the element type and one element per index.
DataArray(dims, shape, dtype, data) ==
    [dims |-> dims, shape |-> shape, dtype |-> dtype, data |-> data]

ndim(arr) == Len(arr.shape)

\* xarray's DataArray.transpose(dims[p0], dims[p1], dims[p2]) on a rank-3
\* array: new axis i is old axis p[i].
Transpose3(arr, p) ==
    LET nshape == <<arr.shape[p[1] + 1], arr.shape[p[2] + 1], arr.shape[p[3] + 1]>>
        old(idx) == [a \in 1..3 |-> idx[CHOOSE i \in 1..3 : p[i] + 1 = a]]
    IN  [arr EXCEPT
           !.dims = <<arr.dims[p[1] + 1], arr.dims[p[2] + 1], arr.dims[p[3] + 1]>>,
           !.shape = nshape,
           !.data = [idx \in IdxN(nshape) |->
                       arr.data[<<old(idx)[1], old(idx)[2], old(idx)[3]>>]]]

transpose_perm(src, dst) ==
    CASE src = "BIL" /\ dst = "BIP" -> <<0, 2, 1>>
      [] src = "BIL" /\ dst = "BSQ" -> <<1, 2, 0>>
      [] src = "BIL" /\ dst = "RASTERIO" -> <<1, 0, 2>>
      [] src = "BIP" /\ dst = "BIL" -> <<0, 2, 1>>
      [] src = "BIP" /\ dst = "BSQ" -> <<2, 1, 0>>
      [] src = "BIP" /\ dst = "RASTERIO" -> <<2, 0, 1>>
      [] src = "BSQ" /\ dst = "BIL" -> <<2, 0, 1>>
      [] src = "BSQ" /\ dst = "BIP" -> <<2, 1, 0>>
      [] src = "BSQ" /\ dst = "RASTERIO" -> <<0, 2, 1>>

transpose_cube_cyclic(src, dst, arr) ==
    IF src = dst THEN arr
    ELSE IF src = "BSQ" /\ dst = "BIL" THEN Transpose3(arr, <<1, 2, 0>>)
    ELSE Transpose3(arr, transpose_perm(src, dst))

transpose_cube(src, dst, arr) ==
    IF src = dst THEN arr ELSE Transpose3(arr, transpose_perm(src, dst))

\* A sample value that identifies the physical index it was stored at.
Code(idx) ==
    LET digit(i) == IF i <= Len(idx) THEN idx[i] + 1 ELSE 0
    IN  100 * digit(1) + 10 * digit(2) + digit(3)

\* The array of the given shape whose samples are the codes of their indices.
Coded(shape) ==
    DataArray([i \in 1..Len(shape) |-> <<"dim_0", "dim_1", "dim_2">>[i]], shape,
              "int64", [idx \in IdxN(shape) |-> Code(idx)])

Dims == 1..(MaxDim + 1)

\* Every size with extents up to MaxDim, for the layout functions.
LayoutSizes == {CubeSize(r, c, b) : r \in Dims, c \in Dims, b \in Dims}

\* The sizes of the cubes of a CubeData: three different extents, and
\* three equal extents.
DistinctSize == CubeSize(MaxDim - 1, MaxDim, MaxDim + 1)

CubicSize == CubeSize(MaxDim, MaxDim, MaxDim)

CubeSizes == {DistinctSize, CubicSize}


(***************************************************************************)
(* Exact arithmetic for the float fields and float expressions             *)
(***************************************************************************)
AbsInt(n) == IF n < 0 THEN -n ELSE n

RECURSIVE GCD(_, _)
GCD(a, b) == IF b = 0 THEN a ELSE GCD(b, a % b)

\* The fraction n / d (d # 0) in lowest terms with a positive denominator.
Frac(n, d) ==
    LET g == GCD(AbsInt(n), AbsInt(d))
        s == IF d < 0 THEN -1 ELSE 1
    IN  [n |-> (s * n) \div g, d |-> (s * d) \div g]

R(i) == [n |-> i, d |-> 1]

RAdd(a, b) == Frac(a.n * b.d + b.n * a.d, a.d * b.d)

RSub(a, b) == Frac(a.n * b.d - b.n * a.d, a.d * b.d)

RMul(a, b) == Frac(a.n * b.n, a.d * b.d)

\* a / b for b # 0; the callers raise ZeroDivisionError before dividing by 0.
RDiv(a, b) == Frac(a.n * b.d, a.d * b.n)

RAbs(a) == [n |-> AbsInt(a.n), d |-> a.d]

RNeg(a) == [n |-> -a.n, d |-> a.d]

RLt(a, b) == a.n * b.d < b.n * a.d

RZero(a) == a.n = 0

(***************************************************************************)
(* GeotransformModel                                                       *)
(***************************************************************************)
PointModel(x, y) == [x |-> x, y |-> y]

\* The pydantic model declares six float fields and no validator: every
\* combination of numbers constructs.
GeotransformModel(upperleft, xres, row_rotation, yres, col_rotation) ==
    [upperleft |-> upperleft, xres |-> xres, row_rotation |-> row_rotation,
     yres |-> yres, col_rotation |-> col_rotation]

null == GeotransformModel(PointModel(R(0), R(0)), R(1), R(0), R(-1), R(0))

\* gdal_transform is a 6-tuple, indexed from 0 in the source.
fromgdal(gdal_transform) ==
    GeotransformModel(PointModel(gdal_transform[1], gdal_transform[4]),
                      gdal_transform[2], gdal_transform[3],
                      gdal_transform[6], gdal_transform[5])

\* affine_transform is an Affine with coefficients a..f.
fromaffine(affine_transform) ==
    GeotransformModel(PointModel(affine_transform.c, affine_transform.f),
                      affine_transform.a, affine_transform.b,
                      affine_transform.e, affine_transform.d)

\* height and width are ints: dividing by 0 raises ZeroDivisionError.
fromarraysize(upper_left_latitiude, upper_left_longitude, lower_right_latitude, lower_right_longitude, height, width) ==
    IF width = 0 \/ height = 0 THEN [err |-> "ZeroDivisionError", model |-> None]
    ELSE LET xres == RDiv(RAbs(RSub(upper_left_longitude, lower_right_longitude)),
                          R(width))
             yres == RDiv(RAbs(RSub(upper_left_latitiude, lower_right_latitude)),
                          R(height))
         IN  [err |-> "ok",
              model |-> Some(GeotransformModel(
                  PointModel(upper_left_longitude, upper_left_latitiude),
                  xres, R(0), RNeg(yres), R(0)))]

togdal(g) ==
    <<g.upperleft.x, g.xres, g.row_rotation, g.upperleft.y, g.col_rotation, g.yres>>

toaffine(g) ==
    [a |-> g.xres, b |-> g.row_rotation, c |-> g.upperleft.x,
     d |-> g.col_rotation, e |-> g.yres, f |-> g.upperleft.y]

pixel_to_map(g, xpixel, ypixel, convention) ==
    LET xmap == RAdd(RAdd(g.upperleft.x, RMul(xpixel, g.xres)),
                     RMul(ypixel, g.row_rotation))
        ymap == RAdd(RAdd(g.upperleft.y, RMul(ypixel, g.yres)),
                     RMul(xpixel, g.col_rotation))
    IN  IF convention = "globe" /\ RLt(xmap, R(0))
        THEN PointModel(RAdd(xmap, R(360)), ymap)
        ELSE PointModel(xmap, ymap)

\* _scaler of map_to_pixel.
scaler(g) ==
    RSub(RMul(g.xres, g.yres), RMul(g.col_rotation, g.row_rotation))

\* The float divisions of map_to_pixel raise ZeroDivisionError on a zero
\* divisor: by xres and _scaler for xpixel, by yres and _scaler for ypixel.
map_to_pixel_divides(g) ==
    ~RZero(g.xres) /\ ~RZero(g.yres) /\ ~RZero(scaler(g))

xpixel_of(g, xmap, ymap) ==
    RDiv(RAdd(RSub(RSub(RMul(g.yres, xmap), RMul(g.upperleft.x, g.yres)),
                   RMul(RDiv(RMul(g.row_rotation, g.yres), g.xres), ymap)),
              RMul(g.row_rotation, g.upperleft.y)),
         scaler(g))

ypixel_of(g, xmap, ymap) ==
    RDiv(RAdd(RSub(RSub(RMul(g.xres, ymap), RMul(g.upperleft.y, g.xres)),
                   RMul(RDiv(RMul(g.col_rotation, g.xres), g.yres), xmap)),
              RMul(g.col_rotation, g.upperleft.x)),
         scaler(g))

\* What a call returns or raises: the exception's name, the returned point,
\* and the coordinate and bound a GeographicBoundsError message names.
Returned(pt) == [err |-> "ok", point |-> Some(pt), coord |-> None, bound |-> None]

Raised(name) == [err |-> name, point |-> None, coord |-> None, bound |-> None]

GeographicBoundsError(coord, bound) ==
    [err |-> "GeographicBoundsError", point |-> None,
     coord |-> Some(coord), bound |-> Some(bound)]

bounds_check_x_only(g, xmap, ymap, xpixel, ypixel) ==
    IF RLt(xpixel, R(0)) THEN GeographicBoundsError(xmap, g.upperleft.x)
    ELSE Returned(PointModel(xpixel, ypixel))

bounds_check_inclusive(g, xmap, ymap, xpixel, ypixel) ==
    IF ~RLt(R(0), xpixel) THEN GeographicBoundsError(xmap, g.upperleft.x)
    ELSE IF ~RLt(R(0), ypixel) THEN GeographicBoundsError(ymap, g.upperleft.y)
    ELSE Returned(PointModel(xpixel, ypixel))

bounds_check(g, xmap, ymap, xpixel, ypixel) ==
    IF RLt(xpixel, R(0)) THEN GeographicBoundsError(xmap, g.upperleft.x)
    ELSE IF RLt(ypixel, R(0)) THEN GeographicBoundsError(ymap, g.upperleft.y)
    ELSE Returned(PointModel(xpixel, ypixel))

map_to_pixel(g, xmap, ymap) ==
    IF ~map_to_pixel_divides(g) THEN Raised("ZeroDivisionError")
    ELSE bounds_check(g, xmap, ymap, xpixel_of(g, xmap, ymap), ypixel_of(g, xmap, ymap))

\* The x and y vectors of generate_coords, as sequences of length width
\* and height.
generate_coords(g, width, height) ==
    [xcoords |-> [nx \in 1..width |-> pixel_to_map(g, R(nx - 1), R(0), "hemi").x],
     ycoords |-> [ny \in 1..height |-> pixel_to_map(g, R(0), R(ny - 1), "hemi").y]]


(***************************************************************************)
(* xarray arithmetic on DataArrays: operands are matched by axis name      *)
(***************************************************************************)
Range(seq) == {seq[i] : i \in 1..Len(seq)}

PosOf(dims, d) == CHOOSE i \in 1..Len(dims) : dims[i] = d

SizeOf(arr, d) == arr.shape[PosOf(arr.dims, d)]

\* Two operands cannot be broadcast when an axis they share has two extents.
Conflict(a, b) ==
    \E d \in Range(a.dims) \cap Range(b.dims) : SizeOf(a, d) # SizeOf(b, d)

\* The element of arr at the position that idx, an index over dims, names.
NamedAt(arr, dims, idx) ==
    arr.data[[i \in 1..Len(arr.dims) |-> idx[PosOf(dims, arr.dims[i])]]]

\* The operands of an element-wise operation, broadcast against each other:
\* the result has the axes of a, then the axes only b has, and at every
\* index the element of a and the element of b.
Broadcast(a, b) ==
    LET extra == SelectSeq(b.dims, LAMBDA d : d \notin Range(a.dims))
        dims  == a.dims \o extra
        shape == [i \in 1..Len(dims) |->
                    IF i <= Len(a.dims) THEN a.shape[i] ELSE SizeOf(b, dims[i])]
    IN  [dims |-> dims, shape |-> shape,
         left |-> [idx \in IdxN(shape) |-> NamedAt(a, dims, idx)],
         right |-> [idx \in IdxN(shape) |-> NamedAt(b, dims, idx)]]

Invert(a) == [a EXCEPT !.data = [idx \in DOMAIN a.data |-> ~a.data[idx]]]

BitOr(a, b) ==
    LET joined(ab) ==
            DataArray(ab.dims, ab.shape, "bool",
                      [idx \in DOMAIN ab.left |-> ab.left[idx] \/ ab.right[idx]])
    IN  joined(Broadcast(a, b))

BitAnd(a, b) ==
    LET met(ab) ==
            DataArray(ab.dims, ab.shape, "bool",
                      [idx \in DOMAIN ab.left |-> ab.left[idx] /\ ab.right[idx]])
    IN  met(Broadcast(a, b))

zeros(dims, shape) ==
    DataArray(dims, shape, "bool", [idx \in IdxN(shape) |-> FALSE])

(***************************************************************************)
(* CubeMask                                                                *)
(***************************************************************************)
\* A method's outcome: the exception it raised or "ok", the object after
\* the call, and the value returned.
Ok(self, value) == [err |-> "ok", self |-> self, value |-> Some(value)]

Done(self) == [err |-> "ok", self |-> self, value |-> None]

Raise(name, self) == [err |-> name, self |-> self, value |-> None]

CubeMask(shape, xdim_name, ydim_name, zdim_name, xy_mask, z_mask) ==
    LET self == [shape |-> shape, xymask |-> xy_mask, zmask |-> z_mask,
                 xdim_name |-> xdim_name, ydim_name |-> ydim_name,
                 zdim_name |-> zdim_name]
    IN  IF IsSome(xy_mask) /\ Get(xy_mask).dtype # "bool" THEN Raise("ValueError", self)
        ELSE IF IsSome(z_mask) /\ Get(z_mask).dtype # "bool" THEN Raise("ValueError", self)
        ELSE Done(self)

transparent(shape, xdim_name, ydim_name, zdim_name) ==
    CubeMask(shape, xdim_name, ydim_name, zdim_name,
             Some(zeros(<<ydim_name, xdim_name>>, <<shape.nrows, shape.ncolumns>>)),
             Some(zeros(<<zdim_name>>, <<shape.nbands>>))).self

xymask_setter(self, value) ==
    IF value.dtype # "bool" THEN Raise("ValueError", self)
    ELSE IF ndim(value) # 2 THEN Raise("ValueError", self)
    ELSE IF ~IsSome(self.xymask) THEN Raise("ValueError", self)
    ELSE Done([self EXCEPT !.xymask = Some(value)])

zmask_setter(self, value) ==
    IF value.dtype # "bool" THEN Raise("ValueError", self)
    ELSE IF ndim(value) # 1 THEN Raise("ValueError", self)
    ELSE Done([self EXCEPT !.zmask = Some(value)])

add_to_xymask_replacing(self, new_mask) ==
    IF new_mask.dtype # "bool" THEN Raise("ValueError", self)
    ELSE IF ~IsSome(self.xymask) THEN Raise("ValueError", self)
    ELSE IF ndim(new_mask) # 2 THEN Raise("ValueError", self)
    ELSE IF Conflict(Get(self.xymask), new_mask) THEN Raise("ValueError", self)
    ELSE xymask_setter(self, BitOr(zeros(Get(self.xymask).dims, Get(self.xymask).shape),
                                   new_mask))

\* new_mask.rename(...) returns a renamed copy that is dropped: new_mask
\* keeps its own axis names.  The | raises ValueError on mismatched extents.
add_to_xymask(self, new_mask) ==
    IF new_mask.dtype # "bool" THEN Raise("ValueError", self)
    ELSE IF ~IsSome(self.xymask) THEN Raise("ValueError", self)
    ELSE IF ndim(new_mask) # 2 THEN Raise("ValueError", self)
    ELSE IF Conflict(Get(self.xymask), new_mask) THEN Raise("ValueError", self)
    ELSE xymask_setter(self, BitOr(Get(self.xymask), new_mask))

\* add_to_zmask that keeps the mask and reports nothing when the extents
\* of the new mask are not those of the old one.
add_to_zmask_lenient(self, new_mask) ==
    IF new_mask.dtype # "bool" THEN Raise("ValueError", self)
    ELSE IF ~IsSome(self.zmask) THEN Raise("ValueError", self)
    ELSE IF ndim(new_mask) # 1 THEN Raise("ValueError", self)
    ELSE IF Conflict(Get(self.zmask), new_mask) THEN Done(self)
    ELSE zmask_setter(self, BitOr(Get(self.zmask), new_mask))

add_to_zmask(self, new_mask) ==
    IF new_mask.dtype # "bool" THEN Raise("ValueError", self)
    ELSE IF ~IsSome(self.zmask) THEN Raise("ValueError", self)
    ELSE IF ndim(new_mask) # 1 THEN Raise("ValueError", self)
    ELSE IF Conflict(Get(self.zmask), new_mask) THEN Raise("ValueError", self)
    ELSE zmask_setter(self, BitOr(Get(self.zmask), new_mask))

(***************************************************************************)
(* CubeData: CubeDataCore with the masking, geospatial and transformation  *)
(* mix-ins.  self is the record of the object's attributes.                *)
(***************************************************************************)
\* np.nan, the fill value of _apply_mask; no sample or nodata value of the
\* model is equal to it.
NaN == 99999

CubeData(format, xcoord_label, ycoord_label, zcoord_label, x_name, y_name, z_name, geotransform, nodata) ==
    [gtrans |-> geotransform, nodata |-> nodata, fmt |-> format, array |-> None,
     xcoords |-> xcoord_label, ycoords |-> ycoord_label, zcoords |-> zcoord_label,
     xdim_name |-> x_name, ydim_name |-> y_name, zdim_name |-> z_name,
     shape |-> None, mask |-> None, builder |-> None]

\* np.arange(0, n) as a label vector.
arange(n) == [i \in 1..n |-> R(i - 1)]

shape_prop(self) ==
    IF IsSome(self.shape) THEN Ok(self, Get(self.shape))
    ELSE IF ~IsSome(self.array) THEN Raise("ValueError", self)
    ELSE LET recorded(sz) ==
                 IF sz.err # "ok" THEN Raise(sz.err, self)
                 ELSE Ok([self EXCEPT !.shape = sz.size], Get(sz.size))
         IN  recorded(get_cube_size(Get(self.array).shape, self.fmt))

xcoords_prop(self) ==
    IF IsSome(self.xcoords) THEN Ok(self, Get(self.xcoords))
    ELSE LET cached(sh) ==
                 IF sh.err # "ok" THEN sh
                 ELSE Ok([sh.self EXCEPT !.xcoords = Some(arange(Get(sh.value).ncolumns))],
                         arange(Get(sh.value).ncolumns))
         IN  cached(shape_prop(self))

ycoords_prop(self) ==
    IF IsSome(self.ycoords) THEN Ok(self, Get(self.ycoords))
    ELSE LET cached(sh) ==
                 IF sh.err # "ok" THEN sh
                 ELSE Ok([sh.self EXCEPT !.ycoords = Some(arange(Get(sh.value).ncolumns))],
                         arange(Get(sh.value).ncolumns))
         IN  cached(shape_prop(self))

zcoords_prop(self) ==
    IF IsSome(self.zcoords) THEN Ok(self, Get(self.zcoords))
    ELSE LET cached(sh) ==
                 IF sh.err # "ok" THEN sh
                 ELSE Ok([sh.self EXCEPT !.zcoords = Some(arange(Get(sh.value).ncolumns))],
                         arange(Get(sh.value).ncolumns))
         IN  cached(shape_prop(self))

\* CubeMask.transparent(**self._builder).
transparent_from(builder) ==
    transparent(builder.shape, builder.xdim_name, builder.ydim_name, builder.zdim_name)

\* MaskingMixIn.mask: the first read creates _builder and a transparent mask.
mask_prop(self) ==
    IF IsSome(self.mask) THEN Ok(self, Get(self.mask))
    ELSE LET created(s, b, m) ==
                 Ok([s EXCEPT !.builder = Some(b), !.mask = Some(m)], m)
             built(s, b) == created(s, b, transparent_from(b))
             shaped(sh) ==
                 IF sh.err # "ok" THEN sh
                 ELSE built(sh.self,
                            [shape |-> Get(sh.value), xdim_name |-> self.xdim_name,
                             ydim_name |-> self.ydim_name, zdim_name |-> self.zdim_name])
         IN  shaped(shape_prop(self))

\* DataArray.where(cond, other): the elements where cond is false become
\* other; the axes cond adds are appended; the coordinates are kept.
where(arr, cond, other) ==
    LET filled(ab) ==
            [dims |-> ab.dims, shape |-> ab.shape, dtype |-> "float64",
             data |-> [idx \in DOMAIN ab.left |->
                         IF ab.right[idx] THEN ab.left[idx] ELSE other],
             coords |-> arr.coords]
    IN  filled(Broadcast(arr, cond))

apply_mask(self, which) ==
    IF ~IsSome(self.array) THEN Raise("ValueError", self)
    ELSE LET filtered(s, cond) ==
                 IF Conflict(Get(self.array), cond) THEN Raise("ValueError", s)
                 ELSE Ok(s, where(Get(self.array), cond, NaN))
             masked(m) ==
                 IF m.err # "ok" THEN m
                 ELSE IF ~IsSome(Get(m.value).xymask) \/ ~IsSome(Get(m.value).zmask)
                 THEN Raise("ValueError", m.self)
                 ELSE filtered(m.self,
                               CASE which = "both" ->
                                        BitAnd(Invert(Get(Get(m.value).xymask)),
                                               Invert(Get(Get(m.value).zmask)))
                                 [] which = "xy" -> Invert(Get(Get(m.value).xymask))
                                 [] which = "z" -> Invert(Get(Get(m.value).zmask)))
         IN  masked(mask_prop(self))

\* MaskingMixIn.array (getter): the masked view.
array_getter(self) ==
    IF ~IsSome(self.array) THEN Raise("ValueError", self)
    ELSE apply_mask(self, "both")

SeqMin(labels) ==
    CHOOSE v \in Range(labels) : \A w \in Range(labels) : ~RLt(w, v)

SeqMax(labels) ==
    CHOOSE v \in Range(labels) : \A w \in Range(labels) : ~RLt(v, w)

\* self.array is read twice: for the Longitude and for the Latitude labels.
get_current_geotransform(self) ==
    IF ~IsSome(self.gtrans) THEN Raise("ValueError", self)
    ELSE LET current(a1, a2) ==
                 IF a2.err # "ok" THEN a2
                 ELSE IF "Latitude" \notin DOMAIN Get(a2.value).coords
                 THEN Raise("KeyError", a2.self)
                 ELSE Ok(a2.self,
                         GeotransformModel(
                             PointModel(SeqMin(Get(a1.value).coords["Longitude"]),
                                        SeqMax(Get(a2.value).coords["Latitude"])),
                             Get(self.gtrans).xres, Get(self.gtrans).row_rotation,
                             Get(self.gtrans).yres, Get(self.gtrans).col_rotation))
             first(a1) ==
                 IF a1.err # "ok" THEN a1
                 ELSE IF "Longitude" \notin DOMAIN Get(a1.value).coords
                 THEN Raise("KeyError", a1.self)
                 ELSE current(a1, array_getter(a1.self))
         IN  first(array_getter(self))

geotransform_getter(self) ==
    IF ~IsSome(self.gtrans) THEN Ok(self, null)
    ELSE IF ~IsSome(self.array) THEN Ok(self, Get(self.gtrans))
    ELSE get_current_geotransform(self)

\* GeospatialMixIn._create_dims_tuple, then CubeDataCore._create_dims_tuple.
create_dims_tuple(self) ==
    LET ordered(s1, n, ix) == Ok(s1, <<n[ix.row + 1], n[ix.col + 1], n[ix.band + 1]>>)
        named(s1) ==
            ordered(s1, <<s1.ydim_name, s1.xdim_name, s1.zdim_name>>, FORMAT_INDICES[s1.fmt])
    IN  named(IF IsSome(self.gtrans)
              THEN [self EXCEPT !.xdim_name = "Longitude", !.ydim_name = "Latitude"]
              ELSE self)

\* CubeDataCore._create_coords_dict.
core_create_coords_dict(self) ==
    LET third(x, y, z) ==
            IF z.err # "ok" THEN z
            ELSE Ok(z.self, (self.xdim_name :> Get(x.value))
                            @@ (self.ydim_name :> Get(y.value))
                            @@ (self.zdim_name :> Get(z.value)))
        second(x, y) ==
            IF y.err # "ok" THEN y ELSE third(x, y, zcoords_prop(y.self))
        first(x) ==
            IF x.err # "ok" THEN x ELSE second(x, ycoords_prop(x.self))
    IN  first(xcoords_prop(self))

\* GeospatialMixIn._create_coords_dict.
create_coords_dict(self) ==
    IF ~IsSome(self.gtrans) THEN core_create_coords_dict(self)
    ELSE LET labelled(s, c) ==
                 core_create_coords_dict([s EXCEPT !.xcoords = Some(c.xcoords),
                                                   !.ycoords = Some(c.ycoords)])
             sized(g, sh) ==
                 IF sh.err # "ok" THEN sh
                 ELSE labelled(sh.self,
                               generate_coords(Get(g.value), Get(sh.value).ncolumns,
                                               Get(sh.value).nrows))
             transformed(g) ==
                 IF g.err # "ok" THEN g ELSE sized(g, shape_prop(g.self))
         IN  transformed(geotransform_getter(self))

\* xr.DataArray(value.data, coords=crds, dims=dims) raises ValueError when a
\* coordinate vector is not as long as the axis it labels.
create_labeled_dataarray(self, value) ==
    LET labelled(d, c) ==
            IF c.err # "ok" THEN c
            ELSE IF \E i \in 1..3 : Len(Get(c.value)[Get(d.value)[i]]) # value.shape[i]
            THEN Raise("ValueError", c.self)
            ELSE Ok(c.self, [dims |-> Get(d.value), shape |-> value.shape,
                             dtype |-> value.dtype, data |-> value.data,
                             coords |-> Get(c.value)])
        named(d) == labelled(d, create_coords_dict(d.self))
    IN  named(create_dims_tuple(self))

\* value.expand_dims(dim={zdim_name: 1}, axis=2) on a rank-2 array.
expand_dims(value, name) ==
    DataArray(value.dims \o <<name>>, value.shape \o <<1>>, value.dtype,
              [idx \in IdxN(value.shape \o <<1>>) |-> value.data[<<idx[1], idx[2]>>]])

\* CubeDataCore.array (setter), reached through MaskingMixIn.array (setter):
\* _shape is assigned before the labelled array is built.
array_setter(self, value) ==
    LET stored(la) ==
            IF la.err # "ok" THEN Raise(la.err, la.self)
            ELSE Done([la.self EXCEPT !.array = la.value])
        sized(v, sz) ==
            IF sz.err # "ok" THEN Raise(sz.err, self)
            ELSE stored(create_labeled_dataarray([self EXCEPT !.shape = sz.size], v))
        promoted(v) == sized(v, get_cube_size(v.shape, self.fmt))
    IN  promoted(IF ndim(value) = 2 THEN expand_dims(value, self.zdim_name) ELSE value)

\* fmt is assigned before self.array is read.  arr.transpose(three names)
\* raises ValueError unless arr has three axes.
transpose_to(self, format) ==
    LET assigned(a) ==
            IF a.err # "ok" THEN a
            ELSE IF self.fmt # format /\ ndim(Get(a.value)) # 3
            THEN Raise("ValueError", a.self)
            ELSE array_setter(a.self, transpose_cube(self.fmt, format, Get(a.value)))
    IN  assigned(array_getter([self EXCEPT !.fmt = format]))

\* reset_mask that does not put the other mask back.
reset_mask_dropping(self, which) ==
    IF which = "both" /\ ~IsSome(self.builder) THEN Raise("AttributeError", self)
    ELSE LET cleared(m) ==
                 IF m.err # "ok" THEN m
                 ELSE Done([m.self EXCEPT
                              !.mask = Some(transparent_from(Get(m.self.builder)))])
         IN  cleared(mask_prop(self))

reset_mask(self, which) ==
    IF which = "both" THEN
        IF ~IsSome(self.builder) THEN Raise("AttributeError", self)
        ELSE Done([self EXCEPT !.mask = Some(transparent_from(Get(self.builder)))])
    ELSE IF which \in {"xy", "z"} THEN
        LET restored(s1, r) ==
                IF r.err # "ok" THEN Raise(r.err, s1)
                ELSE Done([s1 EXCEPT !.mask = Some(r.self)])
            cleared(m, t) ==
                restored([m.self EXCEPT !.mask = Some(t)],
                         IF which = "xy"
                         THEN add_to_zmask(t, Get(Get(m.value).zmask))
                         ELSE add_to_xymask(t, Get(Get(m.value).xymask)))
            kept(m) ==
                IF m.err # "ok" THEN m
                ELSE IF which = "xy" /\ ~IsSome(Get(m.value).zmask)
                THEN Raise("ValueError", m.self)
                ELSE IF which = "z" /\ ~IsSome(Get(m.value).xymask)
                THEN Raise("ValueError", m.self)
                ELSE cleared(m, transparent_from(Get(m.self.builder)))
        IN  kept(mask_prop(self))
    ELSE Done(self)

\* self.mask.add_to_xymask(new_mask) and self.mask.add_to_zmask(new_mask),
\* as add_nodata_mask and add_shapefile_mask call them.
mask_add(self, axis, new_mask) ==
    LET added(m, r) ==
            IF r.err # "ok" THEN Raise(r.err, m.self)
            ELSE Done([m.self EXCEPT !.mask = Some(r.self)])
        found(m) ==
            IF m.err # "ok" THEN m
            ELSE added(m, IF axis = "xy" THEN add_to_xymask(Get(m.value), new_mask)
                          ELSE add_to_zmask(Get(m.value), new_mask))
    IN  found(mask_prop(self))

\* GeospatialMixIn.geotransform (setter): _gtrans is assigned, then the
\* masked view that the array getter returns is assigned as the buffer.
geotransform_setter(self, value) ==
    LET reassigned(a) ==
            IF a.err # "ok" THEN Raise(a.err, a.self)
            ELSE array_setter(a.self, Get(a.value))
    IN  reassigned(array_getter([self EXCEPT !.gtrans = Some(value)]))

\* valid_array[:, :, 0]: the first two axes at index 0 of the third.
first_plane(valid_array) ==
    DataArray(<<valid_array.dims[1], valid_array.dims[2]>>,
              <<valid_array.shape[1], valid_array.shape[2]>>, valid_array.dtype,
              [idx \in IdxN(<<valid_array.shape[1], valid_array.shape[2]>>) |->
                 valid_array.data[<<idx[1], idx[2], 0>>]])

\* arr == value, element by element.
equals(arr, value) ==
    DataArray(arr.dims, arr.shape, "bool",
              [idx \in DOMAIN arr.data |-> arr.data[idx] = value])

\* The stored array has a coordinate for each of its axes, so drop_vars
\* finds zdim_name in every layout.
add_nodata_mask(self) ==
    IF ~IsSome(self.array) THEN Raise("ValueError", self)
    ELSE mask_add(self, "xy", equals(first_plane(Get(self.array)), self.nodata))

get_unmasked_array(self, ignore) ==
    IF ~IsSome(self.array) THEN Raise("ValueError", self)
    ELSE IF ignore = "both" THEN Ok(self, Get(self.array))
    ELSE IF ignore = "xy" THEN apply_mask(self, "z")
    ELSE IF ignore = "z" THEN apply_mask(self, "xy")
    ELSE Done(self)

(***************************************************************************)
(* CubeContext: the validators that run when a context is constructed      *)
(***************************************************************************)
\* The largest band count and list length given to CubeContext.
MaxBands == 3

\* str.upper on the interleave strings of the model.
upper(value) ==
    CASE value = "bil" -> "BIL"
      [] value = "bip" -> "BIP"
      [] value = "bsq" -> "BSQ"
      [] OTHER -> value

is_valid_cubearrayformat(value) == value \in cube_array_formats

\* The fields of a CubeContext that its validators read or write.  A list
\* that is not supplied takes its default_factory value, the empty list.
ContextFields(nbands, interleave, band_names, measurement_values, bad_bands) ==
    [nbands |-> nbands, interleave |-> interleave, band_names |-> band_names,
     measurement_values |-> measurement_values, bad_bands |-> bad_bands]

\* What the construction gives: the context, or the ValidationError that
\* pydantic raises for a ValueError of a validator, and then no object.
Built(self) == [err |-> "ok", value |-> Some(self)]

Invalid(name) == [err |-> name, value |-> None]

uppercase(self) ==
    IF is_valid_cubearrayformat(upper(self.interleave))
    THEN Built([self EXCEPT !.interleave = upper(self.interleave)])
    ELSE Invalid("ValidationError")

\* The mutation of set_default_bbl that flags the defaulted bands as bad.
set_default_bbl_flag_bad(self) ==
    LET checked(bbl) == IF Len(bbl) # self.nbands THEN Invalid("ValidationError")
                        ELSE Built([self EXCEPT !.bad_bands = bbl])
    IN  checked(IF Len(self.bad_bands) = 0
                THEN [i \in 1..Len(self.measurement_values) |-> 0]
                ELSE self.bad_bands)

set_default_bbl(self) ==
    LET checked(bbl) == IF Len(bbl) # self.nbands THEN Invalid("ValidationError")
                        ELSE Built([self EXCEPT !.bad_bands = bbl])
    IN  checked(IF Len(self.bad_bands) = 0
                THEN [i \in 1..Len(self.measurement_values) |-> 1]
                ELSE self.bad_bands)

check_measurement_values(self) ==
    IF Len(self.measurement_values) # self.nbands THEN Invalid("ValidationError")
    ELSE Built(self)

\* CubeContext(**fields): the field validator of interleave, then the model
\* validators in the order of their definition.
CubeContext(fields) ==
    LET second(b) == IF b.err # "ok" THEN b ELSE check_measurement_values(Get(b.value))
        first(a) == IF a.err # "ok" THEN a ELSE second(set_default_bbl(Get(a.value)))
    IN  first(uppercase(fields))

builder(self) ==
    ContextFields(self.nbands, self.interleave, self.band_names,
                  self.measurement_values, self.bad_bands)

from_builder(builder_dict) == CubeContext(builder_dict)

(***************************************************************************)
(* ImageOffset and GCPGroup (geotools/models/gcp_model.py)                 *)
(***************************************************************************)
GroundControlPoint(pixel_row, pixel_column, map_x, map_y, id) ==
    [pixel_row |-> pixel_row, pixel_column |-> pixel_column,
     map_x |-> map_x, map_y |-> map_y, id |-> id]

ImageOffset(height, width, row, column) ==
    [height |-> height, width |-> width, row |-> row, column |-> column]

slice(start, stop) == [start |-> start, stop |-> stop]

row_slice(self) == slice(self.row, self.row + self.height - 1)

col_slice(self) == slice(self.column, self.column + self.width - 1)

\* The positions that a slice selects on an axis of n elements: a negative
\* bound counts from the end, and both bounds are clipped to 0..n.
slice_indices(sl, n) ==
    LET norm(i) == IF i < 0 THEN (IF i + n < 0 THEN 0 ELSE i + n)
                   ELSE IF i > n THEN n ELSE i
        span(a, b) == [k \in 1..(IF b > a THEN b - a ELSE 0) |-> a + k - 1]
    IN  span(norm(sl.start), norm(sl.stop))

\* base_image[rows, cols] on the first two axes of a rank-2 image.
GetItem(base_image, rows, cols) ==
    LET taken(r, c) ==
            DataArray(base_image.dims, <<Len(r), Len(c)>>, base_image.dtype,
                      [idx \in IdxN(<<Len(r), Len(c)>>) |->
                          base_image.data[<<r[idx[1] + 1], c[idx[2] + 1]>>]])
    IN  taken(slice_indices(rows, base_image.shape[1]),
              slice_indices(cols, base_image.shape[2]))

\* What crop_image returns or raises.
Cropped(image) == [err |-> "ok", image |-> Some(image)]

CropError(name) == [err |-> name, image |-> None]

\* The mutation of crop_image that skips the check of the column extent.
crop_image_rows_only(self, base_image) ==
    IF base_image.shape[1] < self.row + self.height
    THEN CropError("ValueError")
    ELSE Cropped(GetItem(base_image, row_slice(self), col_slice(self)))

crop_image(self, base_image) ==
    IF \/ base_image.shape[1] < self.row + self.height
       \/ base_image.shape[2] < self.column + self.width
    THEN CropError("ValueError")
    ELSE Cropped(GetItem(base_image, row_slice(self), col_slice(self)))

GCPGroup(offset, gcp_list) == [offset |-> offset, gcp_list |-> gcp_list]

\* The mutation of adjust_offset that subtracts the old offset from the new.
adjust_offset_reversed(self, new_offset, ids) ==
    GCPGroup(new_offset,
             [i \in 1..Len(self.gcp_list) |->
                 GroundControlPoint(
                     self.gcp_list[i].pixel_row + (new_offset.row - self.offset.row),
                     self.gcp_list[i].pixel_column + (new_offset.column - self.offset.column),
                     self.gcp_list[i].map_x, self.gcp_list[i].map_y, ids[i])])

\* adjust_offset builds every point anew: ids[i] is the uuid4 that the
\* default_factory draws for point i.
adjust_offset(self, new_offset, ids) ==
    GCPGroup(new_offset,
             [i \in 1..Len(self.gcp_list) |->
                 GroundControlPoint(
                     self.gcp_list[i].pixel_row + (self.offset.row - new_offset.row),
                     self.gcp_list[i].pixel_column + (self.offset.column - new_offset.column),
                     self.gcp_list[i].map_x, self.gcp_list[i].map_y, ids[i])])

(***************************************************************************)
(* generate_latlong (geotools/generate_geoloc_backplane.py)                *)
(*                                                                         *)
(* scipy.spatial.Delaunay is modelled by what it documents: simplices that *)
(* tile the convex hull with empty circumcircles, in an order and, for     *)
(* co-circular points, with a diagonal that the caller does not control;   *)
(* find_simplex gives a simplex that contains the point, or -1.  The       *)
(* operators below are exact for the three or four points they are given.  *)
(***************************************************************************)
column_stack(a, b) == [i \in 1..Len(a) |-> <<a[i], b[i]>>]

\* seq[i] as Python indexes it: a negative index counts from the end.
At(seq, i) == IF i < 0 THEN seq[Len(seq) + i + 1] ELSE seq[i + 1]

\* Twice the signed area of the triangle (o, a, b).
Cross(o, a, b) == (a[1] - o[1]) * (b[2] - o[2]) - (a[2] - o[2]) * (b[1] - o[1])

Norm2(a, d) == (a[1] - d[1]) * (a[1] - d[1]) + (a[2] - d[2]) * (a[2] - d[2])

\* d lies strictly inside the circle through a, b and c.
InCircle(a, b, c, d) ==
    LET det == (a[1] - d[1]) * ((b[2] - d[2]) * Norm2(c, d) - (c[2] - d[2]) * Norm2(b, d))
               - (a[2] - d[2]) * ((b[1] - d[1]) * Norm2(c, d) - (c[1] - d[1]) * Norm2(b, d))
               + Norm2(a, d) * ((b[1] - d[1]) * (c[2] - d[2]) - (c[1] - d[1]) * (b[2] - d[2]))
    IN  det * Cross(a, b, c) > 0

\* The simplices that a Delaunay triangulation of pix can hold: triples of
\* point numbers, not collinear, with no other point inside their circle.
DelaunaySimplices(pix) ==
    {s \in {<<i, j, k>> : i \in 0..(Len(pix) - 1), j \in 0..(Len(pix) - 1), k \in 0..(Len(pix) - 1)} :
        /\ s[1] < s[2] /\ s[2] < s[3]
        /\ Cross(pix[s[1] + 1], pix[s[2] + 1], pix[s[3] + 1]) # 0
        /\ \A q \in 0..(Len(pix) - 1) :
              q \in {s[1], s[2], s[3]}
              \/ ~InCircle(pix[s[1] + 1], pix[s[2] + 1], pix[s[3] + 1], pix[q + 1])}

\* Two simplices with a common edge lie on the same side of it.
Overlapping(pix, s, t) ==
    LET common == {s[1], s[2], s[3]} \cap {t[1], t[2], t[3]}
        side(e, f, a, b) == Cross(pix[e + 1], pix[f + 1], pix[a + 1])
                            * Cross(pix[e + 1], pix[f + 1], pix[b + 1]) > 0
    IN  /\ s # t
        /\ Cardinality(common) = 2
        /\ \E e \in common, f \in common, a \in {s[1], s[2], s[3]} \ common,
              b \in {t[1], t[2], t[3]} \ common : e < f /\ side(e, f, a, b)

\* The triangulations: the largest sets of such simplices that do not
\* overlap (one set, or two when four points lie on one circle).
Triangulations(pix) ==
    LET fits(T) == \A s \in T, t \in T : ~Overlapping(pix, s, t)
        all == {T \in SUBSET DelaunaySimplices(pix) : fits(T)}
    IN  {T \in all : \A U \in all : ~(T \subseteq U /\ T # U)}

\* Delaunay(pix): an error for fewer than three points or collinear points,
\* else the simplices of a triangulation in one of their orders.
Delaunay(pix) ==
    IF DelaunaySimplices(pix) = {}
    THEN {[err |-> "QhullError", simplices |-> <<>>]}
    ELSE {[err |-> "ok", simplices |-> seq] :
            seq \in UNION {{q \in [1..Cardinality(T) -> T] :
                              \A i \in 1..Cardinality(T), j \in 1..Cardinality(T) :
                                 q[i] = q[j] => i = j} : T \in Triangulations(pix)}}

\* tri.transform[s] applied to a point: the first two barycentric
\* coordinates c = Tinv (p - r), where r is the third vertex of simplex s.
transform(pix, s, p) ==
    LET solved(a, b, r) ==
            <<Frac((b[2] - r[2]) * (p[1] - r[1]) - (b[1] - r[1]) * (p[2] - r[2]),
                   (a[1] - r[1]) * (b[2] - r[2]) - (b[1] - r[1]) * (a[2] - r[2])),
              Frac((a[1] - r[1]) * (p[2] - r[2]) - (a[2] - r[2]) * (p[1] - r[1]),
                   (a[1] - r[1]) * (b[2] - r[2]) - (b[1] - r[1]) * (a[2] - r[2]))>>
    IN  solved(pix[s[1] + 1], pix[s[2] + 1], pix[s[3] + 1])

\* The simplices that contain p, their edges included.
Containing(pix, simplices, p) ==
    {n \in 0..(Len(simplices) - 1) :
        LET inside(c) == /\ ~RLt(c[1], R(0)) /\ ~RLt(c[2], R(0))
                         /\ ~RLt(R(1), RAdd(c[1], c[2]))
        IN  inside(transform(pix, simplices[n + 1], p))}

\* tri.find_simplex(p): a containing simplex, the first or the last one
\* where p lies on a common edge, and -1 where there is none.
find_simplex(pix, simplices, p, prefer) ==
    LET among(C) == IF C = {} THEN -1
                    ELSE IF prefer = "first" THEN CHOOSE n \in C : \A m \in C : n <= m
                    ELSE CHOOSE n \in C : \A m \in C : n >= m
    IN  among(Containing(pix, simplices, p))

\* The weighted sum of the map coordinates of the vertices of simplex s.
Weighted(latlon, s, bary) ==
    <<RAdd(RAdd(RMul(R(latlon[s[1] + 1][1]), bary[1]), RMul(R(latlon[s[2] + 1][1]), bary[2])),
           RMul(R(latlon[s[3] + 1][1]), bary[3])),
      RAdd(RAdd(RMul(R(latlon[s[1] + 1][2]), bary[1]), RMul(R(latlon[s[2] + 1][2]), bary[2])),
           RMul(R(latlon[s[3] + 1][2]), bary[3]))>>

\* What generate_latlong returns or raises.
Backplane(simplices, value) == [err |-> "ok", simplices |-> simplices, value |-> Some(value)]

QhullError == [err |-> "QhullError", simplices |-> <<>>, value |-> None]

\* The mutation of generate_latlong that lists the grid points as
\* (row, column).
generate_latlong_rowcol(col_gcps, row_gcps, lon_gcps, lat_gcps, height, width, tri, prefer) ==
    LET pix == column_stack(col_gcps, row_gcps)
        latlon == column_stack(lat_gcps, lon_gcps)
        pts == [k \in 1..(height * width) |-> <<(k - 1) \div width, (k - 1) % width>>]
        dense(p, n) ==
            LET full(c) == <<c[1], c[2], RSub(RSub(R(1), c[1]), c[2])>>
            IN  Weighted(latlon, At(tri.simplices, n),
                         full(transform(pix, At(tri.simplices, n), p)))
    IN  IF tri.err # "ok" THEN QhullError
        ELSE Backplane(tri.simplices,
                       [rc \in IdxN(<<height, width>>) |->
                           dense(pts[rc[1] * width + rc[2] + 1],
                                 find_simplex(pix, tri.simplices,
                                              pts[rc[1] * width + rc[2] + 1], prefer))])

\* pts is the raveled meshgrid: point k is (column, row) of the pixel in
\* row k div width; the reshape puts point k at [k div width, k mod width].
generate_latlong(col_gcps, row_gcps, lon_gcps, lat_gcps, height, width, tri, prefer) ==
    LET pix == column_stack(col_gcps, row_gcps)
        latlon == column_stack(lat_gcps, lon_gcps)
        pts == [k \in 1..(height * width) |-> <<(k - 1) % width, (k - 1) \div width>>]
        dense(p, n) ==
            LET full(c) == <<c[1], c[2], RSub(RSub(R(1), c[1]), c[2])>>
            IN  Weighted(latlon, At(tri.simplices, n),
                         full(transform(pix, At(tri.simplices, n), p)))
    IN  IF tri.err # "ok" THEN QhullError
        ELSE Backplane(tri.simplices,
                       [rc \in IdxN(<<height, width>>) |->
                           dense(pts[rc[1] * width + rc[2] + 1],
                                 find_simplex(pix, tri.simplices,
                                              pts[rc[1] * width + rc[2] + 1], prefer))])

\* The pixel and map coordinates of a group as the arrays of its properties.
col_pixels(gcp_group) == [i \in 1..Len(gcp_group.gcp_list) |-> gcp_group.gcp_list[i].pixel_column]

row_pixels(gcp_group) == [i \in 1..Len(gcp_group.gcp_list) |-> gcp_group.gcp_list[i].pixel_row]

map_x(gcp_group) == [i \in 1..Len(gcp_group.gcp_list) |-> gcp_group.gcp_list[i].map_x]

map_y(gcp_group) == [i \in 1..Len(gcp_group.gcp_list) |-> gcp_group.gcp_list[i].map_y]

latlong_from_gcp_group(gcp_group, base_image, tri, prefer) ==
    generate_latlong(col_pixels(gcp_group), row_pixels(gcp_group), map_x(gcp_group),
                     map_y(gcp_group), base_image.shape[1], base_image.shape[2], tri, prefer)

(***************************************************************************)
(* georeference_satellite_swath                                            *)
(*                                                                         *)
(* pyresample's kd_tree.resample_nearest is modelled by what it documents: *)
(* every cell of the area takes the sample of the swath nearest to its     *)
(* centre, up to the factor 1 + epsilon, if that sample is within          *)
(* radius_of_influence metres, and fill_value otherwise.  Distances are    *)
(* taken in the plane of longitude and latitude, in kilometres.            *)
(***************************************************************************)
\* pi * MOON_RADIUS / 180 in kilometres per degree, to two digits.
MOON_M_PER_DEG == 30

\* The same for the sphere that pyresample measures distances on.
EARTH_M_PER_DEG == 111

BoundingBoxModel(left, bottom, right, top) ==
    [left |-> left, bottom |-> bottom, right |-> right, top |-> top]

top_left(self) == PointModel(self.left, self.top)

as_extent(self) == <<self.left, self.bottom, self.right, self.top>>

\* PixelResolution.from_array; 1 / dpp raises ZeroDivisionError for dpp = 0.
from_array(max_lat, min_lat, height) ==
    LET made(dpp) ==
            IF RZero(dpp)
            THEN [err |-> "ZeroDivisionError", pix_per_deg |-> R(0), deg_per_pix |-> dpp,
                  m_per_pix |-> R(0)]
            ELSE [err |-> "ok", pix_per_deg |-> RDiv(R(1), dpp), deg_per_pix |-> dpp,
                  m_per_pix |-> RMul(R(MOON_M_PER_DEG), dpp)]
    IN  made(RDiv(RSub(max_lat, min_lat), R(height)))

\* The largest and the smallest value of row i of a rank-2 array.
row_max(arr, i) ==
    CHOOSE x \in {arr.data[<<i, j>>] : j \in 0..(arr.shape[2] - 1)} :
       \A j \in 0..(arr.shape[2] - 1) : ~RLt(x, arr.data[<<i, j>>])

row_min(arr, i) ==
    CHOOSE x \in {arr.data[<<i, j>>] : j \in 0..(arr.shape[2] - 1)} :
       \A j \in 0..(arr.shape[2] - 1) : ~RLt(arr.data[<<i, j>>], x)

\* int(x) of a float: the fraction is cut off.
int(x) == IF x.n >= 0 THEN x.n \div x.d ELSE -((-x.n) \div x.d)

AreaDefinition(width, height, area_extent) ==
    [width |-> int(width), height |-> int(height), area_extent |-> area_extent]

\* (longitude, latitude) of the centre of cell (i, j) of the area.
cell_centre(area, i, j) ==
    <<RAdd(area.area_extent[1],
           RDiv(RMul(R(2 * j + 1), RSub(area.area_extent[3], area.area_extent[1])),
                R(2 * area.width))),
      RSub(area.area_extent[4],
           RDiv(RMul(R(2 * i + 1), RSub(area.area_extent[4], area.area_extent[2])),
                R(2 * area.height)))>>

\* The squared distance in km of sample at of the swath from the point c.
distance2(lons, lats, at, c) ==
    RMul(R(EARTH_M_PER_DEG * EARTH_M_PER_DEG),
         RAdd(RMul(RSub(lons.data[at], c[1]), RSub(lons.data[at], c[1])),
              RMul(RSub(lats.data[at], c[2]), RSub(lats.data[at], c[2]))))

\* The samples that the search may give for a cell centre c: within the
\* radius, and at most 1 + epsilon = 3/2 times as far as the nearest.
neighbours(lons, lats, radius_of_influence, c) ==
    LET near == {at \in IdxN(lons.shape) :
                    ~RLt(RMul(radius_of_influence, radius_of_influence),
                         distance2(lons, lats, at, c))}
    IN  {at \in near :
            \A other \in near :
               ~RLt(RMul(Frac(9, 4), distance2(lons, lats, other, c)),
                    distance2(lons, lats, at, c))}

\* kd_tree.resample_nearest on one rank-2 band: the search gives the first
\* or the last of the samples it may give, the same one for the same swath,
\* area and radius.
resample_nearest(lons, lats, data, area, radius_of_influence, fill_value, pick) ==
    LET order(at) == at[1] * lons.shape[2] + at[2]
        chosen(N) == IF pick = "first" THEN CHOOSE at \in N : \A o \in N : order(at) <= order(o)
                     ELSE CHOOSE at \in N : \A o \in N : order(at) >= order(o)
        sample(N) == IF N = {} THEN fill_value ELSE data[chosen(N)]
    IN  [shape |-> <<area.height, area.width>>,
         data |-> [ij \in IdxN(<<area.height, area.width>>) |->
                     sample(neighbours(lons, lats, radius_of_influence,
                                       cell_centre(area, ij[1], ij[2])))]]

\* satellite_data[:, :, band].
band_of(satellite_data, band) ==
    [ij \in IdxN(<<satellite_data.shape[1], satellite_data.shape[2]>>) |->
        satellite_data.data[<<ij[1], ij[2], band>>]]

\* resampled_data[:, :, band] = plane.
set_band(resampled_data, band, band_plane) ==
    [resampled_data EXCEPT
       !.data = [idx \in DOMAIN @ |->
                   IF idx[3] = band THEN band_plane.data[<<idx[1], idx[2]>>] ELSE @[idx]]]

\* np.empty(shape): the cells hold whatever the memory held.
Uninitialized == -1

np_empty(shape) == [shape |-> shape, data |-> [idx \in IdxN(shape) |-> Uninitialized]]

\* The area that the swath is resampled onto, from the resolution found.
projection_area(res, extent) ==
    AreaDefinition(RMul(RSub(extent.right, extent.left), res.pix_per_deg),
                   RMul(RSub(extent.top, extent.bottom), res.pix_per_deg),
                   as_extent(extent))

\* The mutation of detect_resolution that takes both latitudes from the
\* first row.
detect_resolution_first_row(satellite_data, latitude_backplane) ==
    from_array(row_max(latitude_backplane, 0), row_min(latitude_backplane, 0),
               satellite_data.shape[1])

\* The resolution that the latitudes of the first and last row give.
detect_resolution(satellite_data, latitude_backplane) ==
    from_array(row_max(latitude_backplane, 0),
               row_min(latitude_backplane, latitude_backplane.shape[1] - 1),
               satellite_data.shape[1])

\* One pass of the loop over the bands 1 .. nbands - 1.
RECURSIVE resample_bands(_, _, _, _, _, _, _, _)
resample_bands(resampled_data, band, satellite_data, lons, lats, area, res, pick) ==
    IF band >= satellite_data.shape[3] THEN resampled_data
    ELSE resample_bands(
             set_band(resampled_data, band,
                      resample_nearest(lons, lats, band_of(satellite_data, band), area,
                                       RMul(res.m_per_pix, R(3)), NaN, pick)),
             band + 1, satellite_data, lons, lats, area, res, pick)

\* The geotransform returned with the resampled data.
derived_geotransform(res, extent) ==
    GeotransformModel(top_left(extent), res.deg_per_pix, R(0), RNeg(res.deg_per_pix), R(0))

\* What georeference_satellite_swath returns or raises.
Georeferenced(resampled_data, gtrans) ==
    [err |-> "ok", value |-> Some(resampled_data), gtrans |-> Some(gtrans)]

SwathError(name) == [err |-> name, value |-> None, gtrans |-> None]

\* The mutation of georeference_satellite_swath that resamples the first
\* band of a cube with the radius of the rank-2 branch.
georeference_first_band_wider(satellite_data, longitude_backplane, latitude_backplane, extent, pick) ==
    LET done(res, area) ==
            IF ndim(satellite_data) = 2
            THEN resample_nearest(longitude_backplane, latitude_backplane,
                                  satellite_data.data, area, RMul(res.m_per_pix, R(4)), NaN, pick)
            ELSE resample_bands(
                     set_band(np_empty(<<area.height, area.width, satellite_data.shape[3]>>), 0,
                              resample_nearest(longitude_backplane, latitude_backplane,
                                               band_of(satellite_data, 0), area,
                                               RMul(res.m_per_pix, R(4)), NaN, pick)),
                     1, satellite_data, longitude_backplane, latitude_backplane, area, res, pick)
        located(res) ==
            IF res.err # "ok" THEN SwathError(res.err)
            ELSE IF ndim(satellite_data) \notin {2, 3} THEN SwathError("ValueError")
            ELSE Georeferenced(done(res, projection_area(res, extent)),
                               GeotransformModel(top_left(extent), res.deg_per_pix, R(0),
                                                 RNeg(res.deg_per_pix), R(0)))
    IN  located(detect_resolution(satellite_data, latitude_backplane))

\* The mutation of georeference_satellite_swath that fills the unmatched
\* cells of a cube with 0.
georeference_zero_fill(satellite_data, longitude_backplane, latitude_backplane, extent, pick) ==
    LET done(res, area) ==
            IF ndim(satellite_data) = 2
            THEN resample_nearest(longitude_backplane, latitude_backplane,
                                  satellite_data.data, area, RMul(res.m_per_pix, R(4)), NaN, pick)
            ELSE resample_bands(
                     set_band(np_empty(<<area.height, area.width, satellite_data.shape[3]>>), 0,
                              resample_nearest(longitude_backplane, latitude_backplane,
                                               band_of(satellite_data, 0), area,
                                               RMul(res.m_per_pix, R(3)), 0, pick)),
                     1, satellite_data, longitude_backplane, latitude_backplane, area, res, pick)
        located(res) ==
            IF res.err # "ok" THEN SwathError(res.err)
            ELSE IF ndim(satellite_data) \notin {2, 3} THEN SwathError("ValueError")
            ELSE Georeferenced(done(res, projection_area(res, extent)),
                               GeotransformModel(top_left(extent), res.deg_per_pix, R(0),
                                                 RNeg(res.deg_per_pix), R(0)))
    IN  located(detect_resolution(satellite_data, latitude_backplane))

georeference_satellite_swath(satellite_data, longitude_backplane, latitude_backplane, extent, pick) ==
    LET done(res, area) ==
            IF ndim(satellite_data) = 2
            THEN resample_nearest(longitude_backplane, latitude_backplane,
                                  satellite_data.data, area, RMul(res.m_per_pix, R(4)), NaN, pick)
            ELSE resample_bands(
                     set_band(np_empty(<<area.height, area.width, satellite_data.shape[3]>>), 0,
                              resample_nearest(longitude_backplane, latitude_backplane,
                                               band_of(satellite_data, 0), area,
                                               RMul(res.m_per_pix, R(3)), NaN, pick)),
                     1, satellite_data, longitude_backplane, latitude_backplane, area, res, pick)
        located(res) ==
            IF res.err # "ok" THEN SwathError(res.err)
            ELSE IF ndim(satellite_data) \notin {2, 3} THEN SwathError("ValueError")
            ELSE Georeferenced(done(res, projection_area(res, extent)),
                               GeotransformModel(top_left(extent), res.deg_per_pix, R(0),
                                                 RNeg(res.deg_per_pix), R(0)))
    IN  located(detect_resolution(satellite_data, latitude_backplane))

(***************************************************************************)
(* State                                                                   *)
(***************************************************************************)
VARIABLES
    layout,   \* the calls of the layout functions on one buffer
    geo,      \* one GeotransformModel and the last calls of its conversions
    cube,     \* the attributes of one CubeData object
    ret,      \* the last call on cube: its name and the exception it raised
    ctx,      \* the arguments of one CubeContext and what they construct
    gcps,     \* one GCPGroup, the image it crops and the last calls on them
    plane,    \* the control points of one backplane and the backplane
    swath     \* one swath, its target grid and the bands resampled so far

vars == <<layout, geo, cube, ret, ctx, gcps, plane, swath>>

\* pixel_to_map is called with pixel coordinates 0..MaxPix.
MaxPix == 2

\* The nodata default of CubeDataCore.__init__.
DefaultNodata == -999

IdleLayout ==
    [size |-> CubeSize(1, 1, 1), src |-> "BIP", dst |-> "BIP", buf |-> None,
     out |-> None, back |-> None, got |-> None]

IdleGeo == [model |-> None, err |-> "ok", p2m |-> None, m2p |-> None]

IdleCube ==
    CubeData("BIP", None, None, None, "XAxis", "YAxis", "ZAxis", None, DefaultNodata)

Call(op, r) == [op |-> op, err |-> r.err]

IdleRet == Call("CubeData", Done(IdleCube))

IdleCtx ==
    [args |-> ContextFields(0, "BIP", <<>>, <<>>, <<>>), made |-> None, remade |-> None]

IdleGcps ==
    [image |-> Coded(<<1, 1>>), group |-> GCPGroup(ImageOffset(1, 1, 0, 0), <<>>),
     cropped |-> None, last |-> "GCPGroup", new_offset |-> None]

IdlePlane ==
    [group |-> GCPGroup(ImageOffset(1, 1, 0, 0), <<>>), image |-> Coded(<<1, 1>>), out |-> None]

IdleSwath ==
    [data |-> Coded(<<1, 1>>), lons |-> [shape |-> <<1, 1>>, data |-> [at \in IdxN(<<1, 1>>) |-> R(0)]],
     lats |-> [shape |-> <<1, 1>>, data |-> [at \in IdxN(<<1, 1>>) |-> R(0)]],
     extent |-> BoundingBoxModel(R(0), R(0), R(1), R(1)), pick |-> "first",
     out |-> None, done |-> {}, resampled |-> None, res |-> None, gtrans |-> None]

\* The objects of the georeferencing pipeline and the context are not in use.
IdleTools == ctx = IdleCtx /\ gcps = IdleGcps /\ plane = IdlePlane /\ swath = IdleSwath

(***************************************************************************)
(* SpecLayout: as_tuple, get_cube_size and transpose_cube on coded buffers *)
(***************************************************************************)
LayoutInit ==
    /\ layout \in {[IdleLayout EXCEPT !.size = s, !.src = a, !.dst = b] :
                     s \in LayoutSizes, a \in cube_array_formats, b \in cube_array_formats}
    /\ geo = IdleGeo
    /\ cube = IdleCube
    /\ ret = IdleRet
    /\ IdleTools

MakeBuffer ==
    /\ ~IsSome(layout.buf)
    /\ layout' = [layout EXCEPT !.buf = Some(Coded(as_tuple(layout.size, layout.src)))]
    /\ UNCHANGED <<geo, cube, ret, ctx, gcps, plane, swath>>

GetCubeSize ==
    /\ IsSome(layout.buf)
    /\ ~IsSome(layout.got)
    /\ layout' = [layout EXCEPT
                    !.got = Some(get_cube_size(Get(layout.buf).shape, layout.src))]
    /\ UNCHANGED <<geo, cube, ret, ctx, gcps, plane, swath>>

TransposeCube ==
    /\ IsSome(layout.buf)
    /\ ~IsSome(layout.out)
    /\ layout' = [layout EXCEPT
                    !.out = Some(transpose_cube(layout.src, layout.dst, Get(layout.buf)))]
    /\ UNCHANGED <<geo, cube, ret, ctx, gcps, plane, swath>>

TransposeCubeBack ==
    /\ IsSome(layout.out)
    /\ ~IsSome(layout.back)
    /\ layout' = [layout EXCEPT
                    !.back = Some(transpose_cube(layout.dst, layout.src, Get(layout.out)))]
    /\ UNCHANGED <<geo, cube, ret, ctx, gcps, plane, swath>>

LayoutNext == MakeBuffer \/ GetCubeSize \/ TransposeCube \/ TransposeCubeBack

SpecLayout == LayoutInit /\ [][LayoutNext]_vars

\* C1: transposing a rank-3 buffer from layout L1 to L2 and back from L2 to
\* L1 gives the buffer back: the same axis order, shape and elements.
C1_TransposeRoundTrip ==
    IsSome(layout.back) => Get(layout.back) = Get(layout.buf)

C1_Witness ==
    /\ IsSome(layout.back)
    /\ layout.src = "BSQ" /\ layout.dst = "BIL"
    /\ layout.size = CubeSize(1, 2, 3)
    /\ Get(layout.buf).shape = <<3, 2, 1>>
    /\ Get(layout.out).shape = <<1, 3, 2>>

\* C2: get_cube_size under layout L of a buffer whose shape is
\* s.as_tuple(L) is s.
C2_SizeRoundTrip ==
    IsSome(layout.got) =>
        /\ Get(layout.got).err = "ok"
        /\ Get(Get(layout.got).size) = layout.size

C2_Witness ==
    /\ IsSome(layout.got)
    /\ layout.src = "BSQ"
    /\ layout.size = CubeSize(1, 2, 3)
    /\ Get(layout.buf).shape = <<3, 2, 1>>

(***************************************************************************)
(* SpecGeo: the constructors of GeotransformModel, pixel_to_map and        *)
(* map_to_pixel on small numbers                                          *)
(***************************************************************************)
UpperLeftX == {R(-1), R(2)}

UpperLeftY == {R(0), R(3)}

Resolutions == {R(-2), R(0), Frac(1, 2), R(1)}

Rotations == {R(0), R(1)}

Corners == {R(0), R(2)}

PixelCoords == {R(i) : i \in 0..MaxPix}

MapX == {R(-3), R(0), R(4)}

MapY == {R(-2), R(1), R(5)}

GeoInit ==
    /\ geo = IdleGeo
    /\ layout = IdleLayout
    /\ cube = IdleCube
    /\ ret = IdleRet
    /\ IdleTools

Construct ==
    /\ ~IsSome(geo.model)
    /\ \E x \in UpperLeftX, y \in UpperLeftY, xres \in Resolutions, yres \in Resolutions,
          rr \in Rotations, cr \in Rotations :
          geo' = [geo EXCEPT
                    !.model = Some(GeotransformModel(PointModel(x, y), xres, rr, yres, cr))]
    /\ UNCHANGED <<layout, cube, ret, ctx, gcps, plane, swath>>

ConstructNull ==
    /\ ~IsSome(geo.model)
    /\ geo' = [geo EXCEPT !.model = Some(null)]
    /\ UNCHANGED <<layout, cube, ret, ctx, gcps, plane, swath>>

FromGdal ==
    /\ ~IsSome(geo.model)
    /\ \E x \in UpperLeftX, y \in UpperLeftY, xres \in Resolutions, yres \in Resolutions,
          rr \in Rotations, cr \in Rotations :
          geo' = [geo EXCEPT !.model = Some(fromgdal(<<x, xres, rr, y, cr, yres>>))]
    /\ UNCHANGED <<layout, cube, ret, ctx, gcps, plane, swath>>

FromAffine ==
    /\ ~IsSome(geo.model)
    /\ \E x \in UpperLeftX, y \in UpperLeftY, xres \in Resolutions, yres \in Resolutions,
          rr \in Rotations, cr \in Rotations :
          geo' = [geo EXCEPT
                    !.model = Some(fromaffine([a |-> xres, b |-> rr, c |-> x,
                                               d |-> cr, e |-> yres, f |-> y]))]
    /\ UNCHANGED <<layout, cube, ret, ctx, gcps, plane, swath>>

FromArraySize ==
    /\ ~IsSome(geo.model)
    /\ geo.err = "ok"
    /\ \E ul_lat \in Corners, ul_lon \in Corners, lr_lat \in Corners, lr_lon \in Corners,
          height \in 0..MaxPix, width \in 0..MaxPix :
          LET r == fromarraysize(ul_lat, ul_lon, lr_lat, lr_lon, height, width)
          IN  geo' = [geo EXCEPT !.model = r.model, !.err = r.err]
    /\ UNCHANGED <<layout, cube, ret, ctx, gcps, plane, swath>>

PixelToMap ==
    /\ IsSome(geo.model)
    /\ ~IsSome(geo.p2m)
    /\ \E xpixel \in PixelCoords, ypixel \in PixelCoords, convention \in {"hemi", "globe"} :
          geo' = [geo EXCEPT
                    !.p2m = Some([xpixel |-> xpixel, ypixel |-> ypixel,
                                  convention |-> convention,
                                  out |-> pixel_to_map(Get(geo.model), xpixel, ypixel,
                                                       convention)]),
                    !.m2p = None]
    /\ UNCHANGED <<layout, cube, ret, ctx, gcps, plane, swath>>

\* map_to_pixel on a map coordinate: a fixed one, or the point the last
\* pixel_to_map returned.
MapToPixel ==
    /\ IsSome(geo.model)
    /\ ~IsSome(geo.m2p)
    /\ \E pt \in {PointModel(x, y) : x \in MapX, y \in MapY}
                 \cup {Get(geo.p2m).out : i \in {1 : j \in {1} \cap {Len(geo.p2m)}}} :
          geo' = [geo EXCEPT
                    !.m2p = Some([xmap |-> pt.x, ymap |-> pt.y,
                                  res |-> map_to_pixel(Get(geo.model), pt.x, pt.y)])]
    /\ UNCHANGED <<layout, cube, ret, ctx, gcps, plane, swath>>

GeoNext ==
    \/ Construct \/ ConstructNull \/ FromGdal \/ FromAffine \/ FromArraySize
    \/ PixelToMap \/ MapToPixel

SpecGeo == GeoInit /\ [][GeoNext]_vars

\* The last map_to_pixel call was made on the point the last pixel_to_map
\* call returned.
RoundTrip ==
    /\ IsSome(geo.p2m) /\ IsSome(geo.m2p)
    /\ Get(geo.m2p).xmap = Get(geo.p2m).out.x
    /\ Get(geo.m2p).ymap = Get(geo.p2m).out.y

\* C8: with both rotations 0 and nonzero xres and yres, map_to_pixel of
\* pixel_to_map(col, row), col >= 0 and row >= 0, returns (col, row).
C8_RoundTripUnrotated ==
    (/\ RoundTrip
     /\ Get(geo.p2m).convention = "hemi"
     /\ RZero(Get(geo.model).row_rotation) /\ RZero(Get(geo.model).col_rotation)
     /\ ~RZero(Get(geo.model).xres) /\ ~RZero(Get(geo.model).yres))
    => Get(geo.m2p).res = Returned(PointModel(Get(geo.p2m).xpixel, Get(geo.p2m).ypixel))

C8_Witness ==
    /\ RoundTrip
    /\ Get(geo.p2m).convention = "hemi"
    /\ Get(geo.model) = GeotransformModel(PointModel(R(2), R(3)), Frac(1, 2), R(0),
                                           R(-2), R(0))
    /\ Get(geo.p2m).xpixel = R(0) /\ Get(geo.p2m).ypixel = R(2)
    /\ Get(geo.m2p).res.err = "ok"

\* The map coordinate of the last map_to_pixel call lies left of or above
\* the upper-left corner.
LeftOrAbove ==
    \/ RLt(Get(geo.m2p).xmap, Get(geo.model).upperleft.x)
    \/ RLt(Get(geo.model).upperleft.y, Get(geo.m2p).ymap)

\* The transform is north-up: xres > 0 > yres and no rotation.
NorthUp ==
    /\ RLt(R(0), Get(geo.model).xres) /\ RLt(Get(geo.model).yres, R(0))
    /\ RZero(Get(geo.model).row_rotation) /\ RZero(Get(geo.model).col_rotation)

\* C9: map_to_pixel raises GeographicBoundsError, naming the offending
\* coordinate and the upper-left bound it violates, and returns no point,
\* whenever the pixel column or row it computes is negative; on a north-up
\* transform that is whenever the map coordinate lies left of or above the
\* upper-left corner.
C9_BoundsError ==
    IsSome(geo.m2p) =>
        LET g == Get(geo.model)
            m == Get(geo.m2p)
        IN  /\ (/\ map_to_pixel_divides(g)
                /\ RLt(xpixel_of(g, m.xmap, m.ymap), R(0)))
               => m.res = GeographicBoundsError(m.xmap, g.upperleft.x)
            /\ (/\ map_to_pixel_divides(g)
                /\ ~RLt(xpixel_of(g, m.xmap, m.ymap), R(0))
                /\ RLt(ypixel_of(g, m.xmap, m.ymap), R(0)))
               => m.res = GeographicBoundsError(m.ymap, g.upperleft.y)
            /\ (NorthUp /\ LeftOrAbove)
               => (m.res.err = "GeographicBoundsError" /\ ~IsSome(m.res.point))

C9_Witness ==
    /\ IsSome(geo.m2p)
    /\ NorthUp
    /\ ~RLt(Get(geo.m2p).xmap, Get(geo.model).upperleft.x)
    /\ RLt(Get(geo.model).upperleft.y, Get(geo.m2p).ymap)
    /\ Get(geo.m2p).res = GeographicBoundsError(Get(geo.m2p).ymap,
                                                 Get(geo.model).upperleft.y)

\* C10: no GeotransformModel with determinant 0 exists, however it was
\* constructed, and map_to_pixel returns no pixel coordinate on one.
C10_NoDegenerateModel ==
    /\ IsSome(geo.model) => ~RZero(scaler(Get(geo.model)))
    /\ (IsSome(geo.m2p) /\ RZero(scaler(Get(geo.model))))
       => Get(geo.m2p).res.err # "ok"

(***************************************************************************)
(* Spec: one CubeData object and the calls made on it                      *)
(***************************************************************************)
\* Labels given to the constructor for a cube of size s.
XLabels(s) == [i \in 1..s.ncolumns |-> R(10 + i)]

YLabels(s) == [i \in 1..s.nrows |-> R(20 + i)]

ZLabels(s) == [i \in 1..s.nbands |-> R(30 + i)]

\* A north-up transform with integer resolution.
CubeGeotransform == GeotransformModel(PointModel(R(2), R(3)), R(1), R(0), R(-1), R(0))

InitialCubes ==
    {CubeData(f, None, None, None, "XAxis", "YAxis", "ZAxis", g, DefaultNodata) :
        f \in cube_array_formats, g \in {None, Some(CubeGeotransform)}}
    \cup
    {CubeData(f, Some(XLabels(DistinctSize)), Some(YLabels(DistinctSize)),
              Some(ZLabels(DistinctSize)), "XAxis", "YAxis", "ZAxis", g, DefaultNodata) :
        f \in cube_array_formats, g \in {None, Some(CubeGeotransform)}}

\* The buffers assigned to a cube: one of each size in the cube's layout,
\* a rank-2 buffer and a rank-1 buffer.
ArrayInputs(self) ==
    {Coded(as_tuple(s, self.fmt)) : s \in CubeSizes}
    \cup {Coded(<<MaxDim - 1, MaxDim>>), Coded(<<MaxDim>>)}

\* The array of the given axes and shape that is TRUE at index at only.
OneCell(dims, shape, at) ==
    DataArray(dims, shape, "bool", [idx \in IdxN(shape) |-> idx = at])

\* (rows, columns) of the recorded shape, (1, 1) without one.
SpatialShape(self) ==
    IF IsSome(self.shape) THEN <<Get(self.shape).nrows, Get(self.shape).ncolumns>>
    ELSE <<1, 1>>

\* The masks passed to add_to_xymask: the first or the last cell excluded,
\* on the extent of every cube size; the same axes in the other order; a
\* non-boolean mask; a rank-1 mask; a mask whose axes carry xarray's
\* default names.
XYMaskInputs(self) ==
    LET y == self.ydim_name
        x == self.xdim_name
        b == SpatialShape(self)
    IN  {OneCell(<<y, x>>, <<s.nrows, s.ncolumns>>, <<0, 0>>) : s \in CubeSizes}
        \cup {OneCell(<<y, x>>, <<s.nrows, s.ncolumns>>, <<s.nrows - 1, s.ncolumns - 1>>) :
                s \in CubeSizes}
        \cup {OneCell(<<x, y>>, <<b[2], b[1]>>, <<b[2] - 1, 0>>),
              DataArray(<<y, x>>, b, "int64", [idx \in IdxN(b) |-> 1]),
              OneCell(<<y>>, <<b[1]>>, <<0>>),
              OneCell(<<"dim_0", "dim_1">>, b, <<0, 0>>)}

\* The masks passed to add_to_zmask, likewise.
ZMaskInputs(self) ==
    LET z == self.zdim_name
    IN  {OneCell(<<z>>, <<s.nbands>>, <<0>>) : s \in CubeSizes}
        \cup {OneCell(<<z>>, <<s.nbands>>, <<s.nbands - 1>>) : s \in CubeSizes}
        \cup {DataArray(<<z>>, <<1>>, "int64", [idx \in IdxN(<<1>>) |-> 1]),
              OneCell(<<z, "dim_1">>, <<1, 1>>, <<0, 0>>),
              OneCell(<<"dim_0">>, <<1>>, <<0>>)}

Init ==
    /\ cube \in InitialCubes
    /\ ret = Call("CubeData", Done(cube))
    /\ layout = IdleLayout
    /\ geo = IdleGeo
    /\ IdleTools

SetArray ==
    /\ \E value \in ArrayInputs(cube) :
          \E r \in {array_setter(cube, value)} :
             cube' = r.self /\ ret' = Call("array.setter", r)
    /\ UNCHANGED <<layout, geo, ctx, gcps, plane, swath>>

ReadArray ==
    /\ \E r \in {array_getter(cube)} :
          cube' = r.self /\ ret' = Call("array", r)
    /\ UNCHANGED <<layout, geo, ctx, gcps, plane, swath>>

TransposeTo ==
    /\ \E format \in cube_array_formats :
          \E r \in {transpose_to(cube, format)} :
             cube' = r.self /\ ret' = Call("transpose_to", r)
    /\ UNCHANGED <<layout, geo, ctx, gcps, plane, swath>>

AddToXYMask ==
    /\ \E new_mask \in XYMaskInputs(cube) :
          \E r \in {mask_add(cube, "xy", new_mask)} :
             cube' = r.self /\ ret' = Call("add_to_xymask", r)
    /\ UNCHANGED <<layout, geo, ctx, gcps, plane, swath>>

AddToZMask ==
    /\ \E new_mask \in ZMaskInputs(cube) :
          \E r \in {mask_add(cube, "z", new_mask)} :
             cube' = r.self /\ ret' = Call("add_to_zmask", r)
    /\ UNCHANGED <<layout, geo, ctx, gcps, plane, swath>>

ResetMask ==
    /\ \E which \in {"both", "xy", "z"} :
          \E r \in {reset_mask(cube, which)} :
             cube' = r.self /\ ret' = Call("reset_mask", r)
    /\ UNCHANGED <<layout, geo, ctx, gcps, plane, swath>>

\* A cube that is assigned, read and transposed.  The mask operations
\* write the mask and its builder only, and have a specification of
\* their own.
Next ==
    SetArray \/ ReadArray \/ TransposeTo

Spec == Init /\ [][Next]_vars

\* A cube that is assigned, read and masked.
MaskNext ==
    SetArray \/ ReadArray \/ AddToXYMask \/ AddToZMask \/ ResetMask

SpecMask == Init /\ [][MaskNext]_vars


(***************************************************************************)
(* Properties of CubeData                                                  *)
(***************************************************************************)
\* The index of the sample at (row r, column c, band b) under a layout.
PhysicalIndex(format, r, c, b) ==
    LET ix == FORMAT_INDICES[format]
    IN  [i \in 1..3 |-> CASE i = ix.row + 1 -> r
                          [] i = ix.col + 1 -> c
                          [] i = ix.band + 1 -> b]

SampleAt(arr, format, r, c, b) == arr.data[PhysicalIndex(format, r, c, b)]

\* The (row, column, band) positions of a cube of the given size.
Positions(size) ==
    (0..(size.nrows - 1)) \X (0..(size.ncolumns - 1)) \X (0..(size.nbands - 1))

\* The name and the labels of the row, column or band axis of a buffer.
AxisName(arr, format, axis) == arr.dims[FORMAT_INDICES[format][axis] + 1]

AxisLabels(arr, format, axis) == arr.coords[AxisName(arr, format, axis)]

\* The size of the buffer of a cube under the cube's layout.
BufferSize(self) == Get(get_cube_size(Get(self.array).shape, self.fmt).size)

HasBuffer(self) == IsSome(self.array) /\ ndim(Get(self.array)) = 3

\* No mask yet (the first read creates a transparent one), or a mask that
\* excludes nothing.
TransparentMask(self) ==
    \/ ~IsSome(self.mask)
    \/ /\ IsSome(Get(self.mask).xymask) /\ IsSome(Get(self.mask).zmask)
       /\ \A idx \in DOMAIN Get(Get(self.mask).xymask).data :
             ~Get(Get(self.mask).xymask).data[idx]
       /\ \A idx \in DOMAIN Get(Get(self.mask).zmask).data :
             ~Get(Get(self.mask).zmask).data[idx]

\* The recorded shape and the mask are those of the buffer.
Consistent(self) ==
    /\ HasBuffer(self)
    /\ self.shape = Some(BufferSize(self))
    /\ IsSome(self.mask) => Get(self.mask).shape = BufferSize(self)

\* What transpose_to(format) is to achieve on the cube before.
Transposed(before, after, format) ==
    /\ after.fmt = format
    /\ HasBuffer(after)
    /\ after.shape = Some(BufferSize(before))
    /\ Get(after.array).shape = as_tuple(BufferSize(before), format)
    /\ \A p \in Positions(BufferSize(before)) :
          SampleAt(Get(after.array), format, p[1], p[2], p[3])
             = SampleAt(Get(before.array), before.fmt, p[1], p[2], p[3])
    /\ \A axis \in {"row", "col", "band"} :
          /\ AxisName(Get(after.array), format, axis)
                = AxisName(Get(before.array), before.fmt, axis)
          /\ AxisLabels(Get(after.array), format, axis)
                = AxisLabels(Get(before.array), before.fmt, axis)

\* C3: transpose_to(L) on a cube with a buffer and a transparent mask
\* succeeds, sets fmt to L, stores the buffer in the physical shape of L,
\* keeps the sample at every (row, column, band) and keeps the name and
\* the labels of the row, the column and the band axis.
C3_TransposeTo ==
    [][\A format \in cube_array_formats :
          (/\ ret'.op = "transpose_to"
           /\ HasBuffer(cube) /\ TransparentMask(cube)
           /\ cube' = transpose_to(cube, format).self)
          => (ret'.err = "ok" /\ Transposed(cube, cube', format))]_vars

\* A transposition has failed on a cube whose recorded shape is not that of
\* its buffer.
C3_TransposeFails ==
    /\ ret.op = "transpose_to" /\ ret.err = "ValueError"
    /\ HasBuffer(cube)
    /\ cube.shape # Some(BufferSize(cube))

\* The same from the cubes whose recorded shape and mask are those of the
\* buffer, as they are while no assignment has failed.
TransposeToConsistent ==
    [][\A format \in cube_array_formats :
          (/\ ret'.op = "transpose_to"
           /\ Consistent(cube) /\ TransparentMask(cube)
           /\ cube' = transpose_to(cube, format).self)
          => (ret'.err = "ok" /\ Transposed(cube, cube', format))]_vars

TransposeToConsistent_Witness ==
    /\ ret.op = "transpose_to" /\ ret.err = "ok"
    /\ cube.fmt = "BSQ"
    /\ HasBuffer(cube)
    /\ BufferSize(cube) = DistinctSize
    /\ Get(cube.array).data[<<0, 0, 0>>] # Code(<<0, 0, 0>>)
          \/ Get(cube.array).data[<<MaxDim, 0, 0>>] # Code(<<MaxDim, 0, 0>>)

\* The mask of the cube as a call finds it: created on first use.
MaskOf(self) == Get(mask_prop(self).value)

TrueCells(arr) == {idx \in DOMAIN arr.data : arr.data[idx]}

\* now holds exactly the cells of old and the cells of added, cell by cell
\* along the axes of old.
IsUnion(old, added, now) ==
    /\ now.dims = old.dims /\ now.shape = old.shape
    /\ \A idx \in IdxN(old.shape) :
          now.data[idx] = (old.data[idx] \/ NamedAt(added, old.dims, idx))
    /\ TrueCells(old) \subseteq TrueCells(now)

OtherShape(mask, new_mask) ==
    \/ ndim(new_mask) # ndim(mask)
    \/ Range(new_mask.dims) # Range(mask.dims)
    \/ Conflict(mask, new_mask)

Rejected(new_mask, mask) == new_mask.dtype # "bool" \/ OtherShape(mask, new_mask)

\* The call raised ValueError and left the xy and the z mask of the cube
\* as they were.
Refused(r) == r.err = "ValueError" /\ r.self.mask = Some(MaskOf(cube))

ReadValue == Get(array_getter(cube).value)

\* C6: the array read has the shape of the buffer, holds the nodata value
\* of the cube wherever xymask[r, c] or zmask[b] is true and the sample of
\* the buffer everywhere else.
C6_ReadFillsNodata ==
    (ret.op = "array" /\ ret.err = "ok") =>
        /\ ReadValue.shape = Get(cube.array).shape
        /\ \A p \in Positions(BufferSize(cube)) :
              SampleAt(ReadValue, cube.fmt, p[1], p[2], p[3])
                 = IF \/ Get(Get(cube.mask).xymask).data[<<p[1], p[2]>>]
                      \/ Get(Get(cube.mask).zmask).data[<<p[3]>>]
                   THEN cube.nodata
                   ELSE SampleAt(Get(cube.array), cube.fmt, p[1], p[2], p[3])

\* The array read holds NaN at an excluded cell.
C6_ReadFillsNaN ==
    /\ ret.op = "array" /\ ret.err = "ok"
    /\ Consistent(cube)
    /\ \E p \in Positions(BufferSize(cube)) :
          /\ Get(Get(cube.mask).xymask).data[<<p[1], p[2]>>]
          /\ SampleAt(ReadValue, cube.fmt, p[1], p[2], p[3]) = NaN
          /\ NaN # cube.nodata

AllFalse(arr) == TrueCells(arr) = {}

Unlabelled(self) ==
    /\ ~IsSome(self.gtrans)
    /\ ~IsSome(self.xcoords) /\ ~IsSome(self.ycoords) /\ ~IsSome(self.zcoords)

\* The cube holds a buffer of the given size whose row, column and band
\* labels are 0, 1, ... up to the extent of their axis.
DefaultLabelled(self, size) ==
    /\ HasBuffer(self)
    /\ Get(self.array).shape = as_tuple(size, self.fmt)
    /\ AxisLabels(Get(self.array), self.fmt, "row") = arange(size.nrows)
    /\ AxisLabels(Get(self.array), self.fmt, "col") = arange(size.ncolumns)
    /\ AxisLabels(Get(self.array), self.fmt, "band") = arange(size.nbands)

\* C20: assigning a rank-3 buffer to a cube without a geotransform and
\* without labels succeeds for every size and every layout, and gives the
\* row labels 0..rows-1, the column labels 0..columns-1 and the band labels
\* 0..bands-1.
C20_DefaultLabels ==
    [][\A s \in CubeSizes :
          (/\ ret'.op = "array.setter"
           /\ Unlabelled(cube)
           /\ cube' = array_setter(cube, Coded(as_tuple(s, cube.fmt))).self)
          => (ret'.err = "ok" /\ DefaultLabelled(cube', s))]_vars

\* The assignment of a buffer with rows # columns was refused: the shape
\* is recorded, all three label vectors count the columns, and the cube
\* holds no buffer.
C20_UnequalExtentsRefused ==
    /\ ret.op = "array.setter" /\ ret.err = "ValueError"
    /\ ~IsSome(cube.gtrans)
    /\ ~IsSome(cube.array)
    /\ cube.shape = Some(DistinctSize)
    /\ cube.xcoords = Some(arange(DistinctSize.ncolumns))
    /\ cube.ycoords = Some(arange(DistinctSize.ncolumns))
    /\ cube.zcoords = Some(arange(DistinctSize.ncolumns))

\* The same claim for the buffers whose three extents are equal, where
\* the code meets it.
C20_EqualExtents ==
    [][(/\ ret'.op = "array.setter"
        /\ Unlabelled(cube)
        /\ cube' = array_setter(cube, Coded(as_tuple(CubicSize, cube.fmt))).self)
       => (ret'.err = "ok" /\ DefaultLabelled(cube', CubicSize))]_vars

(***************************************************************************)
(* SpecContext: one CubeContext is constructed and built again from its    *)
(* builder                                                                 *)
(***************************************************************************)
BandNameLists == {[i \in 1..k |-> "band"] : k \in 0..MaxBands}

MeasurementLists == {[i \in 1..k |-> 400 + i] : k \in 0..MaxBands}

\* Every list of flags 0 (bad) and 1 (good), the empty list included.
BadBandLists == UNION {[1..k -> {0, 1}] : k \in 0..MaxBands}

ContextInit ==
    /\ ctx \in {[IdleCtx EXCEPT !.args = ContextFields(n, il, bn, mv, bb)] :
                  n \in 0..MaxBands, il \in {"bil", "BSQ", "tiled"},
                  bn \in BandNameLists, mv \in MeasurementLists, bb \in BadBandLists}
    /\ gcps = IdleGcps /\ plane = IdlePlane /\ swath = IdleSwath
    /\ layout = IdleLayout /\ geo = IdleGeo /\ cube = IdleCube /\ ret = IdleRet

ConstructContext ==
    /\ ~IsSome(ctx.made)
    /\ ctx' = [ctx EXCEPT !.made = Some(CubeContext(ctx.args))]
    /\ UNCHANGED <<layout, geo, cube, ret, gcps, plane, swath>>

FromBuilder ==
    /\ IsSome(ctx.made)
    /\ Get(ctx.made).err = "ok"
    /\ ~IsSome(ctx.remade)
    /\ ctx' = [ctx EXCEPT !.remade = Some(from_builder(builder(Get(Get(ctx.made).value))))]
    /\ UNCHANGED <<layout, geo, cube, ret, gcps, plane, swath>>

ContextNext == ConstructContext \/ FromBuilder

SpecContext == ContextInit /\ [][ContextNext]_vars

\* The constructions of the state: from the arguments, and from the builder.
Constructions ==
    (IF IsSome(ctx.made) THEN {[given |-> ctx.args, res |-> Get(ctx.made)]} ELSE {})
    \cup (IF IsSome(ctx.remade)
          THEN {[given |-> builder(Get(Get(ctx.made).value)), res |-> Get(ctx.remade)]}
          ELSE {})

\* C11: constructing a CubeContext fails validation, and gives no context,
\* whenever the length of band_names, of measurement_values or of a
\* supplied (non-empty) bad_bands list differs from nbands.
C11_ListLengthsValidated ==
    \A c \in Constructions :
       (\/ Len(c.given.band_names) # c.given.nbands
        \/ Len(c.given.measurement_values) # c.given.nbands
        \/ (Len(c.given.bad_bands) # 0 /\ Len(c.given.bad_bands) # c.given.nbands))
       => (c.res.err # "ok" /\ ~IsSome(c.res.value))

\* A context whose band_names list is shorter than nbands is constructed.
C11_BandNamesUnchecked ==
    /\ IsSome(ctx.made)
    /\ Get(ctx.made).err = "ok"
    /\ Len(Get(Get(ctx.made).value).band_names) < Get(Get(ctx.made).value).nbands

\* The two lengths that the validators do check: a measurement_values or a
\* supplied bad_bands list of another length than nbands gives no context.
C11_CheckedLengths ==
    \A c \in Constructions :
       (\/ Len(c.given.measurement_values) # c.given.nbands
        \/ (Len(c.given.bad_bands) # 0 /\ Len(c.given.bad_bands) # c.given.nbands))
       => (c.res.err # "ok" /\ ~IsSome(c.res.value))

\* C12: a CubeContext constructed with nbands = n, valid fields and no
\* bad-band list has a bad_bands list of length n with every flag 1.
C12_DefaultBadBands ==
    \A c \in Constructions :
       (/\ is_valid_cubearrayformat(upper(c.given.interleave))
        /\ Len(c.given.band_names) = c.given.nbands
        /\ Len(c.given.measurement_values) = c.given.nbands
        /\ c.given.bad_bands = <<>>)
       => /\ c.res.err = "ok"
          /\ Get(c.res.value).bad_bands = [i \in 1..c.given.nbands |-> 1]
          /\ Get(c.res.value).nbands = c.given.nbands

\* A context of MaxBands bands built without a bad-band list.
C12_Witness ==
    /\ IsSome(ctx.made)
    /\ ctx.args.nbands = MaxBands
    /\ Len(ctx.args.band_names) = MaxBands
    /\ ctx.args.bad_bands = <<>>
    /\ Get(ctx.made).err = "ok"
    /\ Len(Get(Get(ctx.made).value).bad_bands) = MaxBands

(***************************************************************************)
(* SpecGcps: one GCPGroup whose offset crops an image and is adjusted      *)
(***************************************************************************)
\* The heights and widths of the offsets are 1..MaxCrop.
MaxCrop == 2

\* Offsets inside, across the edge of and before the images.
Offsets ==
    {ImageOffset(h, MaxCrop, r, c) :
        h \in 1..MaxCrop, r \in (-1)..MaxCrop, c \in {-1, 0, 3, MaxCrop + 1}}

\* An image that holds every offset without a negative bound, and one that
\* is too small for the largest row and column offsets.
Images == {Coded(<<2 * MaxCrop, 2 * MaxCrop + 1>>), Coded(<<2 * MaxCrop - 1, 2 * MaxCrop>>)}

\* The values that uuid4 gives are told apart only by being equal or not.
Uuids == {0, 1}

GcpList ==
    <<GroundControlPoint(0, 0, 10, 20, 0), GroundControlPoint(1, 2, 11, 22, 1)>>

GcpsInit ==
    /\ gcps \in {[IdleGcps EXCEPT !.image = im, !.group = GCPGroup(o, GcpList)] :
                   im \in Images, o \in Offsets}
    /\ ctx = IdleCtx /\ plane = IdlePlane /\ swath = IdleSwath
    /\ layout = IdleLayout /\ geo = IdleGeo /\ cube = IdleCube /\ ret = IdleRet

\* georeference_image adjusts the offset before it crops the image once.
CropImage ==
    /\ ~IsSome(gcps.cropped)
    /\ gcps' = [gcps EXCEPT !.cropped = Some(crop_image(gcps.group.offset, gcps.image)),
                            !.last = "crop_image"]
    /\ UNCHANGED <<layout, geo, cube, ret, ctx, plane, swath>>

AdjustOffset ==
    /\ ~IsSome(gcps.cropped)
    /\ \E new_offset \in Offsets, ids \in [1..Len(gcps.group.gcp_list) -> Uuids] :
          gcps' = [gcps EXCEPT !.group = adjust_offset(gcps.group, new_offset, ids),
                               !.last = "adjust_offset",
                               !.new_offset = Some(new_offset)]
    /\ UNCHANGED <<layout, geo, cube, ret, ctx, plane, swath>>

GcpsNext == CropImage \/ AdjustOffset

SpecGcps == GcpsInit /\ [][GcpsNext]_vars

\* The window of rows row..row+height-1 and columns column..column+width-1
\* of the image, as an array of height rows and width columns.
Window(offset, image) ==
    DataArray(image.dims, <<offset.height, offset.width>>, image.dtype,
              [idx \in IdxN(<<offset.height, offset.width>>) |->
                  image.data[<<offset.row + idx[1], offset.column + idx[2]>>]])

\* The offset window lies inside the image.
Inside(offset, image) ==
    /\ offset.row >= 0
    /\ offset.column >= 0
    /\ offset.row + offset.height <= image.shape[1]
    /\ offset.column + offset.width <= image.shape[2]

\* C13: crop_image on an image large enough for the offset returns exactly
\* the window of rows row..row+height-1 and columns column..column+width-1,
\* an image of height rows and width columns.
C13_CropWindow ==
    (IsSome(gcps.cropped) /\ Inside(gcps.group.offset, gcps.image))
    => /\ Get(gcps.cropped).err = "ok"
       /\ Get(Get(gcps.cropped).image) = Window(gcps.group.offset, gcps.image)

\* What the code returns on such an image: the window without its last row
\* and its last column.
C13_CropOneShort ==
    (IsSome(gcps.cropped) /\ Inside(gcps.group.offset, gcps.image))
    => /\ Get(gcps.cropped).err = "ok"
       /\ Get(Get(gcps.cropped).image) =
            Window([gcps.group.offset EXCEPT !.height = @ - 1, !.width = @ - 1], gcps.image)

\* A crop of an offset of MaxCrop rows and columns inside the image.
C13_CropOneShort_Witness ==
    /\ IsSome(gcps.cropped)
    /\ Inside(gcps.group.offset, gcps.image)
    /\ gcps.group.offset.height = MaxCrop
    /\ gcps.group.offset.row > 0
    /\ Get(Get(gcps.cropped).image).shape = <<MaxCrop - 1, MaxCrop - 1>>

\* C14: adjust_offset(new) adds (old offset row - new offset row) to every
\* pixel_row and (old offset column - new offset column) to every
\* pixel_column, makes new the offset of the group, and keeps the number,
\* the order and the map coordinates of the points; from (row 2, column 3)
\* to (row 0, column 0) every point moves by (+2, +3).
C14_AdjustOffset ==
    [][gcps'.last = "adjust_offset" =>
         /\ gcps'.group.offset = Get(gcps'.new_offset)
         /\ Len(gcps'.group.gcp_list) = Len(gcps.group.gcp_list)
         /\ \A i \in 1..Len(gcps.group.gcp_list) :
               /\ gcps'.group.gcp_list[i].pixel_row =
                    gcps.group.gcp_list[i].pixel_row
                    + (gcps.group.offset.row - gcps'.group.offset.row)
               /\ gcps'.group.gcp_list[i].pixel_column =
                    gcps.group.gcp_list[i].pixel_column
                    + (gcps.group.offset.column - gcps'.group.offset.column)
               /\ gcps'.group.gcp_list[i].map_x = gcps.group.gcp_list[i].map_x
               /\ gcps'.group.gcp_list[i].map_y = gcps.group.gcp_list[i].map_y
               /\ (/\ gcps.group.offset.row = 2 /\ gcps.group.offset.column = 3
                   /\ gcps'.group.offset.row = 0 /\ gcps'.group.offset.column = 0)
                  => /\ gcps'.group.gcp_list[i].pixel_row =
                          gcps.group.gcp_list[i].pixel_row + 2
                     /\ gcps'.group.gcp_list[i].pixel_column =
                          gcps.group.gcp_list[i].pixel_column + 3]_vars

\* The group was adjusted to the offset (row 0, column 0) and its first
\* point, at pixel (0, 0) before, is at row 2 and column 3.
C14_Witness ==
    /\ gcps.last = "adjust_offset"
    /\ gcps.group.offset.row = 0
    /\ gcps.group.offset.column = 0
    /\ Len(gcps.group.gcp_list) = 2
    /\ gcps.group.gcp_list[1].pixel_row = 2
    /\ gcps.group.gcp_list[1].pixel_column = 3
    /\ gcps.group.gcp_list[2].pixel_row = 3
    /\ gcps.group.gcp_list[2].pixel_column = 5

\* C15: crop_image raises an error and returns no window whenever the
\* offset window is not fully inside the image: row + height or
\* column + width beyond the image, or a negative row or column offset.
C15_CropOutsideRaises ==
    (IsSome(gcps.cropped) /\ ~Inside(gcps.group.offset, gcps.image))
    => (Get(gcps.cropped).err # "ok" /\ ~IsSome(Get(gcps.cropped).image))

\* A crop with a negative row offset returns an image.
C15_NegativeOffsetCropped ==
    /\ IsSome(gcps.cropped)
    /\ gcps.group.offset.row < 0
    /\ Get(gcps.cropped).err = "ok"
    /\ IsSome(Get(gcps.cropped).image)

\* The two overruns that the code checks: a window that ends beyond the
\* last row or the last column of the image raises ValueError.
C15_OverrunRaises ==
    (/\ IsSome(gcps.cropped)
     /\ \/ gcps.group.offset.row + gcps.group.offset.height > gcps.image.shape[1]
        \/ gcps.group.offset.column + gcps.group.offset.width > gcps.image.shape[2])
    => (Get(gcps.cropped).err = "ValueError" /\ ~IsSome(Get(gcps.cropped).image))


(***************************************************************************)
(* SpecPlane: the backplane of one group of control points                 *)
(***************************************************************************)
\* The backplane has MaxPlane rows and MaxPlane + 1 columns.
MaxPlane == 3

\* A control point at pixel (column, row); the map coordinates are not an
\* affine function of the pixel, so that two triangles extend differently.
ControlPoint(column, row) ==
    GroundControlPoint(row, column, 10 + 2 * column + column * row,
                       50 - 3 * row - column * column, 0)

\* The corners and the centre of a square, and the far corners of a larger
\* triangle whose centroid is the pixel (1, 1).
Candidates ==
    <<ControlPoint(0, 0), ControlPoint(2, 0), ControlPoint(0, 2), ControlPoint(2, 2),
      ControlPoint(1, 1), ControlPoint(3, 0), ControlPoint(0, 3)>>

\* Every choice of three or four candidates, in the order of the list.
GcpLists ==
    {[i \in 1..Len(pick) |-> Candidates[pick[i]]] :
        pick \in {SelectSeq(<<1, 2, 3, 4, 5, 6, 7>>, LAMBDA n : n \in I) :
                    I \in {J \in SUBSET (1..7) : Cardinality(J) \in {3, 4}}}}

PlaneInit ==
    /\ plane \in {[IdlePlane EXCEPT !.group = GCPGroup(ImageOffset(MaxPlane, MaxPlane + 1, 0, 0), l),
                                     !.image = Coded(<<MaxPlane, MaxPlane + 1>>)] :
                    l \in GcpLists}
    /\ ctx = IdleCtx /\ gcps = IdleGcps /\ swath = IdleSwath
    /\ layout = IdleLayout /\ geo = IdleGeo /\ cube = IdleCube /\ ret = IdleRet

LatlongFromGcpGroup ==
    /\ ~IsSome(plane.out)
    /\ \E tri \in Delaunay(column_stack(col_pixels(plane.group), row_pixels(plane.group))),
          prefer \in {"first", "last"} :
          plane' = [plane EXCEPT
                      !.out = Some(latlong_from_gcp_group(plane.group, plane.image, tri, prefer))]
    /\ UNCHANGED <<layout, geo, cube, ret, ctx, gcps, swath>>

PlaneNext == LatlongFromGcpGroup

SpecPlane == PlaneInit /\ [][PlaneNext]_vars

\* The pixel locations (column, row) and the map coordinates (latitude,
\* longitude) of the control points of the state.
PlanePix == column_stack(col_pixels(plane.group), row_pixels(plane.group))

PlaneLatLon == column_stack(map_y(plane.group), map_x(plane.group))

PlaneSimplices == Get(plane.out).simplices

\* The backplane of the state was generated.
Generated == IsSome(plane.out) /\ Get(plane.out).err = "ok"

PlaneValue(rc) == Get(Get(plane.out).value)[rc]

\* p lies in the triangle s, its edges included: p is on no two opposite
\* sides of its edges.
InTriangle(pix, s, p) ==
    LET sides(d1, d2, d3) == ~((d1 < 0 \/ d2 < 0 \/ d3 < 0) /\ (d1 > 0 \/ d2 > 0 \/ d3 > 0))
    IN  sides(Cross(pix[s[1] + 1], pix[s[2] + 1], p), Cross(pix[s[2] + 1], pix[s[3] + 1], p),
              Cross(pix[s[3] + 1], pix[s[1] + 1], p))

\* The barycentric weights of p in the triangle s as ratios of areas: the
\* weight of a vertex is the area of the triangle of p and the other two
\* vertices over the area of s.
AreaWeights(pix, s, p) ==
    <<Frac(Cross(p, pix[s[2] + 1], pix[s[3] + 1]), Cross(pix[s[1] + 1], pix[s[2] + 1], pix[s[3] + 1])),
      Frac(Cross(pix[s[1] + 1], p, pix[s[3] + 1]), Cross(pix[s[1] + 1], pix[s[2] + 1], pix[s[3] + 1])),
      Frac(Cross(pix[s[1] + 1], pix[s[2] + 1], p), Cross(pix[s[1] + 1], pix[s[2] + 1], pix[s[3] + 1]))>>

Interpolated(s, p) == Weighted(PlaneLatLon, s, AreaWeights(PlanePix, s, p))

\* C16: for every pixel (column, row) inside a triangle of the
\* triangulation, the backplane at [row, column] is the sum of the map
\* coordinates (latitude, longitude) of the triangle's three control points
\* weighted by the barycentric weights of the pixel, which sum to 1; at a
\* control point's own pixel it is that point's (map_y, map_x), and at the
\* centroid of a triangle it is the average of the three map coordinates.
C16_BarycentricBackplane ==
    Generated =>
      \A rc \in IdxN(plane.image.shape) :
         \A n \in 1..Len(PlaneSimplices) :
            LET s == PlaneSimplices[n]
                p == <<rc[2], rc[1]>>
                w == AreaWeights(PlanePix, s, p)
            IN  InTriangle(PlanePix, s, p) =>
                  /\ RAdd(RAdd(w[1], w[2]), w[3]) = R(1)
                  /\ PlaneValue(rc) = Interpolated(s, p)
                  /\ \A i \in 1..3 :
                        PlanePix[s[i] + 1] = p =>
                           PlaneValue(rc) = <<R(PlaneLatLon[s[i] + 1][1]), R(PlaneLatLon[s[i] + 1][2])>>
                  /\ (\A a \in 1..2 :
                         PlanePix[s[1] + 1][a] + PlanePix[s[2] + 1][a] + PlanePix[s[3] + 1][a] = 3 * p[a])
                     => PlaneValue(rc) =
                          <<Frac(PlaneLatLon[s[1] + 1][1] + PlaneLatLon[s[2] + 1][1]
                                 + PlaneLatLon[s[3] + 1][1], 3),
                            Frac(PlaneLatLon[s[1] + 1][2] + PlaneLatLon[s[2] + 1][2]
                                 + PlaneLatLon[s[3] + 1][2], 3)>>

\* The backplane of the control points at pixels (0, 0), (3, 0) and (0, 3):
\* the pixel in row 1 and column 1 is their centroid and holds the average
\* of their map coordinates, and the pixel in row 0 and column 3 holds the
\* map coordinates of the second point.
C16_Witness ==
    /\ Generated
    /\ PlanePix = <<<<0, 0>>, <<3, 0>>, <<0, 3>>>>
    /\ PlaneValue(<<1, 1>>) = <<Frac(50 + 41 + 41, 3), Frac(10 + 16 + 10, 3)>>
    /\ PlaneValue(<<0, 3>>) = <<R(41), R(16)>>

\* The pixel lies in no triangle of the triangulation.
OutsideHull(p) == \A n \in 1..Len(PlaneSimplices) : ~InTriangle(PlanePix, PlaneSimplices[n], p)

\* The squared distance of p from the segment (a, b).
SegmentDist2(a, b, p) ==
    LET along == (p[1] - a[1]) * (b[1] - a[1]) + (p[2] - a[2]) * (b[2] - a[2])
    IN  IF along <= 0 THEN R(Norm2(p, a))
        ELSE IF along >= Norm2(b, a) THEN R(Norm2(p, b))
        ELSE RSub(R(Norm2(p, a)), Frac(along * along, Norm2(b, a)))

\* s is at least as near to p as t: compared by their nearest edges.
NoFarther(pix, s, t, p) ==
    \E e \in {<<1, 2>>, <<2, 3>>, <<3, 1>>} :
       \A f \in {<<1, 2>>, <<2, 3>>, <<3, 1>>} :
          ~RLt(SegmentDist2(pix[t[f[1]] + 1], pix[t[f[2]] + 1], p),
               SegmentDist2(pix[s[e[1]] + 1], pix[s[e[2]] + 1], p))

\* The triangles nearest to a pixel outside the hull.
Nearest(p) ==
    {n \in 1..Len(PlaneSimplices) :
        \A m \in 1..Len(PlaneSimplices) :
           NoFarther(PlanePix, PlaneSimplices[n], PlaneSimplices[m], p)}

\* 0/0: the value of a cell marked as no-data.
NoData == [n |-> 0, d |-> 0]

\* C17: for every pixel outside the convex hull of the control points, the
\* backplane value is marked as no-data or is the barycentric extrapolation
\* from a triangle nearest to the pixel.
C17_OutsideHull ==
    Generated =>
      \A rc \in IdxN(plane.image.shape) :
         OutsideHull(<<rc[2], rc[1]>>) =>
            \/ PlaneValue(rc) = <<NoData, NoData>>
            \/ \E n \in Nearest(<<rc[2], rc[1]>>) :
                  PlaneValue(rc) = Interpolated(PlaneSimplices[n], <<rc[2], rc[1]>>)

\* What the code does: a pixel outside the hull is extended from the last
\* simplex of the triangulation, wherever the pixel is.
C17_LastSimplex ==
    Generated =>
      \A rc \in IdxN(plane.image.shape) :
         OutsideHull(<<rc[2], rc[1]>>) =>
            PlaneValue(rc) = Interpolated(PlaneSimplices[Len(PlaneSimplices)], <<rc[2], rc[1]>>)

\* A pixel outside the hull whose value is extended from the last simplex,
\* which is not nearest to it, and differs from the extension of every
\* nearest triangle.
C17_FarSimplexUsed ==
    /\ Generated
    /\ \E rc \in IdxN(plane.image.shape) :
          /\ OutsideHull(<<rc[2], rc[1]>>)
          /\ Len(PlaneSimplices) \notin Nearest(<<rc[2], rc[1]>>)
          /\ PlaneValue(rc) = Interpolated(PlaneSimplices[Len(PlaneSimplices)], <<rc[2], rc[1]>>)
          /\ \A n \in Nearest(<<rc[2], rc[1]>>) :
                PlaneValue(rc) # Interpolated(PlaneSimplices[n], <<rc[2], rc[1]>>)


(***************************************************************************)
(* SpecSwath: one swath is georeferenced by the function, and its bands    *)
(* are resampled one by one in any order                                   *)
(***************************************************************************)
\* The swaths have up to MaxSwath rows, MaxSwath columns and MaxSwath + 1
\* bands.
MaxSwath == 2

\* The backplanes of a swath whose samples are step degrees apart, north
\* up, with the first sample at longitude 20 and latitude 10.
Longitudes(shape, step) ==
    [shape |-> shape, data |-> [at \in IdxN(shape) |-> R(20 + step * at[2])]]

Latitudes(shape, step) ==
    [shape |-> shape, data |-> [at \in IdxN(shape) |-> R(10 - step * at[1])]]

\* A rank-2 swath, cubes of one band and of MaxSwath + 1 bands, and a cube
\* of one row, whose first row is its last.
SwathShapes ==
    {<<MaxSwath, MaxSwath>>, <<MaxSwath, MaxSwath, 1>>, <<MaxSwath, MaxSwath, MaxSwath + 1>>,
     <<1, MaxSwath, MaxSwath>>}

\* An extent around the swath, and one whose cell centres lie half way
\* between the samples of the wider swath.
Extents ==
    {BoundingBoxModel(R(19), R(7), R(23), R(11)),
     BoundingBoxModel(Frac(41, 2), Frac(17, 2), Frac(45, 2), Frac(21, 2))}

SwathInit ==
    /\ swath \in {[IdleSwath EXCEPT !.data = Coded(sh),
                                     !.lons = Longitudes(<<sh[1], sh[2]>>, step),
                                     !.lats = Latitudes(<<sh[1], sh[2]>>, step),
                                     !.extent = e, !.pick = pick] :
                    sh \in SwathShapes, step \in {1, 2}, e \in Extents,
                    pick \in {"first", "last"}}
    /\ ctx = IdleCtx /\ gcps = IdleGcps /\ plane = IdlePlane
    /\ layout = IdleLayout /\ geo = IdleGeo /\ cube = IdleCube /\ ret = IdleRet

GeoreferenceSatelliteSwath ==
    /\ ~IsSome(swath.out)
    /\ swath' = [swath EXCEPT
                    !.out = Some(georeference_satellite_swath(swath.data, swath.lons, swath.lats,
                                                              swath.extent, swath.pick))]
    /\ UNCHANGED <<layout, geo, cube, ret, ctx, gcps, plane>>

\* One pass of the loop over the bands, for any band not yet resampled:
\* the array is allocated with the first band that is written.
ResampleBand ==
    /\ ndim(swath.data) = 3
    /\ detect_resolution(swath.data, swath.lats).err = "ok"
    /\ \E band \in (0..(swath.data.shape[3] - 1)) \ swath.done :
          LET written(res, area) ==
                  set_band(IF swath.done = {}
                           THEN np_empty(<<area.height, area.width, swath.data.shape[3]>>)
                           ELSE Get(swath.resampled),
                           band,
                           resample_nearest(swath.lons, swath.lats, band_of(swath.data, band),
                                            area, RMul(res.m_per_pix, R(3)), NaN, swath.pick))
              located(res) == written(res, projection_area(res, swath.extent))
          IN  swath' = [swath EXCEPT
                          !.done = @ \cup {band},
                          !.resampled = Some(located(detect_resolution(swath.data, swath.lats)))]
    /\ UNCHANGED <<layout, geo, cube, ret, ctx, gcps, plane>>

SwathNext == GeoreferenceSatelliteSwath \/ ResampleBand

SpecSwath == SwathInit /\ [][SwathNext]_vars

\* The function has returned an array and a geotransform.
SwathDone == IsSome(swath.out) /\ Get(swath.out).err = "ok"

SwathValue == Get(Get(swath.out).value)

\* The sample of band band of the swath at (row, column) at.
SwathSample(at, band) ==
    IF ndim(swath.data) = 2 THEN swath.data.data[at]
    ELSE swath.data.data[<<at[1], at[2], band>>]

\* The bands of the output, and its value in cell ij of a band.
OutBands == IF ndim(swath.data) = 2 THEN {0} ELSE 0..(swath.data.shape[3] - 1)

OutSample(ij, band) ==
    IF ndim(swath.data) = 2 THEN SwathValue.data[ij]
    ELSE SwathValue.data[<<ij[1], ij[2], band>>]

\* The centre of output cell ij: the extent is cut into as many rows and
\* columns as the output has.
OutCentre(ij) ==
    cell_centre([width |-> SwathValue.shape[2], height |-> SwathValue.shape[1],
                 area_extent |-> as_extent(swath.extent)], ij[1], ij[2])

\* The rejection radius in km: 3 times (4 times for a rank-2 swath) the
\* pixel size, estimated as the returned resolution in degrees times the
\* length of a degree.
RejectionRadius ==
    RMul(R(IF ndim(swath.data) = 2 THEN 4 ELSE 3),
         RMul(R(MOON_M_PER_DEG), Get(Get(swath.out).gtrans).xres))

\* The samples of the swath within the rejection radius of the cell.
WithinRadius(ij) ==
    {at \in IdxN(swath.lons.shape) :
        ~RLt(RMul(RejectionRadius, RejectionRadius),
             distance2(swath.lons, swath.lats, at, OutCentre(ij)))}

\* C18: a cell of the output holds, in every band, the fill value (np.nan,
\* the no-data value of the resampling) or the value of a swath sample
\* within the rejection radius of the cell, the same sample in every band;
\* a cell with no sample within the radius holds the fill value in every
\* band.
C18_MatchWithinRadius ==
    SwathDone =>
      \A ij \in IdxN(<<SwathValue.shape[1], SwathValue.shape[2]>>) :
         /\ \/ \A band \in OutBands : OutSample(ij, band) = NaN
            \/ \E at \in WithinRadius(ij) :
                  \A band \in OutBands : OutSample(ij, band) = SwathSample(at, band)
         /\ WithinRadius(ij) = {} => \A band \in OutBands : OutSample(ij, band) = NaN

\* A georeferenced cube of MaxSwath + 1 bands with a cell that matched a
\* sample and a cell that matched none.
C18_Witness ==
    /\ SwathDone
    /\ ndim(swath.data) = 3
    /\ swath.data.shape[3] = MaxSwath + 1
    /\ \E ij \in IdxN(<<SwathValue.shape[1], SwathValue.shape[2]>>) :
          /\ WithinRadius(ij) = {}
          /\ \A band \in OutBands : OutSample(ij, band) = NaN
    /\ \E ij \in IdxN(<<SwathValue.shape[1], SwathValue.shape[2]>>) :
          \E at \in WithinRadius(ij) :
             \A band \in OutBands : OutSample(ij, band) = SwathSample(at, band)

\* The orders of n bands.
BandOrders(n) ==
    {p \in [0..(n - 1) -> 0..(n - 1)] : \A a \in 0..(n - 1), b \in 0..(n - 1) : p[a] = p[b] => a = b}

\* The rank-3 array whose band k is band p[k] of arr.
Reordered(arr, p) ==
    [arr EXCEPT !.data = [idx \in DOMAIN @ |-> @[<<idx[1], idx[2], p[idx[3]]>>]]]

\* The swath with every band but band k set to 0.
OnlyBand(arr, k) ==
    [arr EXCEPT !.data = [idx \in DOMAIN @ |-> IF idx[3] = k THEN @[idx] ELSE 0]]

\* C19: on a rank-3 swath, band k of the output depends on band k of the
\* input only, with one grid and one radius for all bands: the swath with
\* its bands reordered gives the output with its bands reordered, the
\* other bands set to 0 leave band k of the output as it is, and the bands
\* resampled one by one in any order give the array that the loop gives.
C19_BandsIndependent ==
    (SwathDone /\ ndim(swath.data) = 3) =>
      /\ \A p \in BandOrders(swath.data.shape[3]) :
            georeference_satellite_swath(Reordered(swath.data, p), swath.lons, swath.lats,
                                         swath.extent, swath.pick).value
              = Some(Reordered(SwathValue, p))
      /\ \A k \in OutBands :
            \A ij \in IdxN(<<SwathValue.shape[1], SwathValue.shape[2]>>) :
               Get(georeference_satellite_swath(OnlyBand(swath.data, k), swath.lons, swath.lats,
                                                swath.extent, swath.pick).value).data[<<ij[1], ij[2], k>>]
                 = OutSample(ij, k)
      /\ swath.done = OutBands => swath.resampled = Some(SwathValue)

\* A cube of MaxSwath + 1 bands whose bands were all resampled one by one,
\* beside the call of the function: the first band has a cell that matched
\* a sample and a cell that matched none.
C19_Witness ==
    /\ SwathDone
    /\ ndim(swath.data) = 3
    /\ swath.data.shape[3] = MaxSwath + 1
    /\ swath.done = OutBands
    /\ \E ij \in IdxN(<<SwathValue.shape[1], SwathValue.shape[2]>>) : OutSample(ij, 0) = NaN
    /\ \E ij \in IdxN(<<SwathValue.shape[1], SwathValue.shape[2]>>) : OutSample(ij, 0) # NaN



(***************************************************************************)
(* SpecGeoCube: a CubeData with or without a geotransform and band labels, *)
(* that is assigned, read, transposed and given a geotransform             *)
(***************************************************************************)
\* A transform with both rotation terms set and a nonzero determinant.
RotatedGeotransform == GeotransformModel(PointModel(R(2), R(3)), R(2), R(1), R(-1), R(1))

\* The transform assigned later: another origin and another resolution.
MovedGeotransform == GeotransformModel(PointModel(R(5), R(7)), R(2), R(0), R(-2), R(0))

\* n band labels.
BandLabels(n) == [i \in 1..n |-> R(30 + i)]

\* Cubes of every layout: without labels, with one band label, with
\* MaxDim band labels, and with the labels of DistinctSize on every axis;
\* without a geotransform, with a north-up one and with a rotated one.
GeoCubes ==
    {CubeData(f, None, None, z, "XAxis", "YAxis", "ZAxis", g, DefaultNodata) :
        f \in cube_array_formats,
        z \in {None, Some(BandLabels(1)), Some(BandLabels(MaxDim))},
        g \in {None, Some(CubeGeotransform), Some(RotatedGeotransform)}}
    \cup
    {CubeData(f, Some(XLabels(DistinctSize)), Some(YLabels(DistinctSize)),
              Some(ZLabels(DistinctSize)), "XAxis", "YAxis", "ZAxis", g, DefaultNodata) :
        f \in cube_array_formats, g \in {None, Some(CubeGeotransform)}}

GeoCubeInit ==
    /\ cube \in GeoCubes
    /\ ret = Call("CubeData", Done(cube))
    /\ layout = IdleLayout
    /\ geo = IdleGeo
    /\ IdleTools

SetGeotransform ==
    /\ \E value \in {CubeGeotransform, MovedGeotransform} :
          \E r \in {geotransform_setter(cube, value)} :
             cube' = r.self /\ ret' = Call("geotransform.setter", r)
    /\ UNCHANGED <<layout, geo, ctx, gcps, plane, swath>>

GeoCubeNext ==
    SetArray \/ ReadArray \/ TransposeTo \/ SetGeotransform

SpecGeoCube == GeoCubeInit /\ [][GeoCubeNext]_vars

\* The rank-2 buffers assigned to the cube.
PlanarInputs(self) == {value \in ArrayInputs(self) : ndim(value) = 2}

\* C21: a successful assignment of a rank-2 buffer of shape (r, c) records
\* the size (r rows, c columns, 1 band) in every layout.
C21_PlanarPromotion ==
    [][\A value \in PlanarInputs(cube) :
          (/\ ret'.op = "array.setter" /\ ret'.err = "ok"
           /\ array_setter(cube, value).err = "ok"
           /\ cube' = array_setter(cube, value).self)
          => cube'.shape = Some(CubeSize(value.shape[1], value.shape[2], 1))]_vars

\* A BIL cube holds a rank-2 buffer of shape (r, c) as r rows, 1 column and
\* c bands: the singleton axis is the last one, the column axis of BIL.
C21_ColumnsAsBands ==
    /\ ret.op = "array.setter" /\ ret.err = "ok"
    /\ cube.fmt = "BIL"
    /\ HasBuffer(cube)
    /\ Get(cube.array).shape = <<MaxDim - 1, MaxDim, 1>>
    /\ Get(cube.array).data[<<0, 1, 0>>] = Code(<<0, 1>>)
    /\ cube.shape = Some(CubeSize(MaxDim - 1, 1, MaxDim))

\* The same claim for the BIP layout, whose band axis is the last one.
C21_PlanarBIP ==
    [][\A value \in PlanarInputs(cube) :
          (/\ ret'.op = "array.setter" /\ ret'.err = "ok"
           /\ cube.fmt = "BIP"
           /\ array_setter(cube, value).err = "ok"
           /\ cube' = array_setter(cube, value).self)
          => cube'.shape = Some(CubeSize(value.shape[1], value.shape[2], 1))]_vars

\* A BIP cube holds a rank-2 buffer as one band.
C21_PlanarBIP_Witness ==
    /\ ret.op = "array.setter" /\ ret.err = "ok"
    /\ cube.fmt = "BIP"
    /\ HasBuffer(cube)
    /\ Get(cube.array).data[<<0, 1, 0>>] = Code(<<0, 1>>)
    /\ cube.shape = Some(CubeSize(MaxDim - 1, MaxDim, 1))


\* The buffer's column and row axes are named Longitude and Latitude and
\* carry the x and the y vector of g.generate_coords for the buffer's size.
LabelledFrom(self, g) ==
    LET arr == Get(self.array)
        size == BufferSize(self)
        crds == generate_coords(g, size.ncolumns, size.nrows)
    IN  /\ AxisName(arr, self.fmt, "col") = "Longitude"
        /\ AxisName(arr, self.fmt, "row") = "Latitude"
        /\ AxisLabels(arr, self.fmt, "col") = crds.xcoords
        /\ AxisLabels(arr, self.fmt, "row") = crds.ycoords

\* C22: a cube that holds a geotransform G, given at construction or
\* assigned through the setter, and a buffer has the column and row labels
\* of G.generate_coords(width=columns, height=rows) on axes named
\* Longitude and Latitude.
C22_LabelsFromGeotransform ==
    (IsSome(cube.gtrans) /\ HasBuffer(cube)) => LabelledFrom(cube, Get(cube.gtrans))

\* The setter has raised KeyError on a cube that had a buffer and no
\* geotransform: the cube holds the transform, and its buffer the axis
\* names and the labels it had.
C22_SetterKeyError ==
    /\ ret.op = "geotransform.setter" /\ ret.err = "KeyError"
    /\ cube.gtrans = Some(MovedGeotransform)
    /\ HasBuffer(cube)
    /\ AxisName(Get(cube.array), cube.fmt, "col") = "XAxis"
    /\ AxisName(Get(cube.array), cube.fmt, "row") = "YAxis"

\* The setter has succeeded on a cube built with another transform: the
\* labels start at the origin of the transform the cube was built with.
C22_OriginKept ==
    /\ ret.op = "geotransform.setter" /\ ret.err = "ok"
    /\ cube.gtrans = Some(MovedGeotransform)
    /\ HasBuffer(cube)
    /\ AxisLabels(Get(cube.array), cube.fmt, "col")[1] = CubeGeotransform.upperleft.x
    /\ AxisLabels(Get(cube.array), cube.fmt, "row")[1] = CubeGeotransform.upperleft.y

\* The same claim for the first buffer of a cube built with a transform.
C22_FirstAssignment ==
    [][(/\ ret'.op = "array.setter" /\ ret'.err = "ok"
        /\ IsSome(cube.gtrans) /\ ~IsSome(cube.array))
       => (HasBuffer(cube') /\ LabelledFrom(cube', Get(cube.gtrans)))]_vars


\* The mask b of a cube is the mask a, or the transparent mask that the
\* first read of a cube without a mask creates.
SameMask(a, b) ==
    \/ b.mask = a.mask
    \/ ~IsSome(a.mask) /\ IsSome(b.mask) /\ TransparentMask(b)

\* The layout, the recorded shape, the buffer, the labels that were set,
\* the geotransform and the mask of b are those of a.
Untouched(a, b) ==
    /\ b.fmt = a.fmt
    /\ b.shape = a.shape
    /\ b.array = a.array
    /\ IsSome(a.xcoords) => b.xcoords = a.xcoords
    /\ IsSome(a.ycoords) => b.ycoords = a.ycoords
    /\ IsSome(a.zcoords) => b.zcoords = a.zcoords
    /\ b.gtrans = a.gtrans
    /\ SameMask(a, b)

\* C23: an assignment of a buffer, a transpose_to or an assignment of a
\* geotransform that raises leaves the layout, the recorded shape, the
\* buffer, the labels, the geotransform and the mask as they were.
C23_FailureLeavesState ==
    [][(ret'.op \in {"array.setter", "transpose_to", "geotransform.setter"}
        /\ ret'.err # "ok")
       => Untouched(cube, cube')]_vars

\* An assignment was refused on a cube that never held a buffer, and the
\* cube has a recorded shape.
C23_ShapeOfRefusedBuffer ==
    /\ ret.op = "array.setter" /\ ret.err = "ValueError"
    /\ ~IsSome(cube.array)
    /\ IsSome(cube.shape)

\* An assignment of a geotransform was refused on a cube without a buffer,
\* and the cube has the transform.
C23_TransformOfRefusedSetter ==
    /\ ret.op = "geotransform.setter" /\ ret.err = "ValueError"
    /\ ~IsSome(cube.array)
    /\ cube.gtrans = Some(MovedGeotransform)

\* The assignment of a rank-1 buffer, refused by get_cube_size before
\* anything is written, changes nothing.
C23_RankRefused ==
    [][(/\ ret'.op = "array.setter" /\ ret'.err # "ok"
        /\ cube' = array_setter(cube, Coded(<<MaxDim>>)).self)
       => cube' = cube]_vars

\* A rank-1 buffer was refused by a cube that holds a buffer.
C23_RankRefused_Witness ==
    /\ ret.op = "array.setter" /\ ret.err = "ValueError"
    /\ HasBuffer(cube) /\ array_setter(cube, Coded(<<MaxDim>>)).self = cube


Rotated(g) == ~RZero(g.row_rotation) \/ ~RZero(g.col_rotation)

\* C26: no cube with a rotated geotransform holds a buffer: the labels of
\* a buffer are derived by generate_coords, which is to reject a transform
\* with a nonzero rotation term.
C26_RotatedRejected ==
    ~(IsSome(cube.gtrans) /\ Rotated(Get(cube.gtrans)) /\ HasBuffer(cube))

\* A buffer was assigned to a cube with a rotated geotransform, and its
\* labels are the axis-aligned vectors: x along row 0, y along column 0.
C26_AxisAlignedLabels ==
    /\ ret.op = "array.setter" /\ ret.err = "ok"
    /\ cube.gtrans = Some(RotatedGeotransform)
    /\ HasBuffer(cube)
    /\ BufferSize(cube) = CubicSize
    /\ AxisLabels(Get(cube.array), cube.fmt, "col")
          = [nx \in 1..MaxDim |-> RAdd(RotatedGeotransform.upperleft.x,
                                       RMul(R(nx - 1), RotatedGeotransform.xres))]
    /\ AxisLabels(Get(cube.array), cube.fmt, "row")
          = [ny \in 1..MaxDim |-> RAdd(RotatedGeotransform.upperleft.y,
                                       RMul(R(ny - 1), RotatedGeotransform.yres))]
    /\ \E nx \in 1..MaxDim :
          pixel_to_map(RotatedGeotransform, R(nx - 1), R(MaxDim - 1), "hemi").x
             # AxisLabels(Get(cube.array), cube.fmt, "col")[nx]


(***************************************************************************)
(* Properties of map_to_pixel on rotated transforms (SpecGeo)              *)
(***************************************************************************)
\* The solution of the 2x2 system: col = (yres*dx - row_rotation*dy) / d
\* and row = (xres*dy - col_rotation*dx) / d.
Solved(g, xmap, ymap) ==
    LET dx == RSub(xmap, g.upperleft.x)
        dy == RSub(ymap, g.upperleft.y)
    IN  PointModel(RDiv(RSub(RMul(g.yres, dx), RMul(g.row_rotation, dy)), scaler(g)),
                   RDiv(RSub(RMul(g.xres, dy), RMul(g.col_rotation, dx)), scaler(g)))

\* C25: on every transform with a nonzero determinant, rotated ones
\* included, map_to_pixel of pixel_to_map(col, row), col >= 0 and row >= 0,
\* returns (col, row), the solution of the 2x2 system.
C25_RoundTripRotated ==
    (/\ RoundTrip
     /\ Get(geo.p2m).convention = "hemi"
     /\ ~RZero(scaler(Get(geo.model))))
    => /\ Get(geo.m2p).res
             = Returned(PointModel(Get(geo.p2m).xpixel, Get(geo.p2m).ypixel))
       /\ Get(geo.m2p).res
             = Returned(Solved(Get(geo.model), Get(geo.m2p).xmap, Get(geo.m2p).ymap))

\* map_to_pixel has returned a pixel that is not the one pixel_to_map was
\* given, on a transform with one rotation term and xres # yres.
C25_WrongPixel ==
    /\ RoundTrip
    /\ Get(geo.p2m).convention = "hemi"
    /\ ~RZero(scaler(Get(geo.model)))
    /\ ~RZero(Get(geo.model).row_rotation)
    /\ Get(geo.m2p).res.err = "ok"
    /\ Get(Get(geo.m2p).res.point)
          # PointModel(Get(geo.p2m).xpixel, Get(geo.p2m).ypixel)
    /\ Solved(Get(geo.model), Get(geo.m2p).xmap, Get(geo.m2p).ymap)
          = PointModel(Get(geo.p2m).xpixel, Get(geo.p2m).ypixel)

\* The round trip on the rotated transforms the source's formula fits:
\* xres = yres, both nonzero, and a nonzero determinant.
C25_EqualResolutions ==
    (/\ RoundTrip
     /\ Get(geo.p2m).convention = "hemi"
     /\ ~RZero(scaler(Get(geo.model)))
     /\ Get(geo.model).xres = Get(geo.model).yres
     /\ ~RZero(Get(geo.model).xres))
    => Get(geo.m2p).res = Returned(PointModel(Get(geo.p2m).xpixel, Get(geo.p2m).ypixel))


(***************************************************************************)
(* SpecResolution: the resolution that georeference_satellite_swath        *)
(* detects on a latitude backplane, and the geotransform it derives        *)
(***************************************************************************)
\* Latitudes that change by down per row and by across per column.
Slanted(shape, down, across) ==
    [shape |-> shape,
     data |-> [at \in IdxN(shape) |-> R(10 + down * at[1] + across * at[2])]]

\* Latitudes that are highest in the middle of the swath.
Arched(shape) ==
    [shape |-> shape,
     data |-> [at \in IdxN(shape) |-> R(10 - (2 * at[1] - (shape[1] - 1)) * (2 * at[1] - (shape[1] - 1)))]]

\* Backplanes of 1 .. MaxSwath + 1 rows and columns: north-up, south-up,
\* level, slanted along the rows, and arched.
LatitudeBackplanes ==
    {Slanted(<<h, w>>, down, across) :
        h \in 1..(MaxSwath + 1), w \in 1..(MaxSwath + 1),
        down \in {-2, -1, 0, 1}, across \in {-1, 0, 1}}
    \cup {Arched(<<h, w>>) : h \in 1..(MaxSwath + 1), w \in 1..(MaxSwath + 1)}

ResolutionInit ==
    /\ swath \in {[IdleSwath EXCEPT !.data = Coded(lats.shape), !.lats = lats,
                                     !.lons = Longitudes(lats.shape, 1), !.extent = e] :
                    lats \in LatitudeBackplanes, e \in Extents}
    /\ ctx = IdleCtx /\ gcps = IdleGcps /\ plane = IdlePlane
    /\ layout = IdleLayout /\ geo = IdleGeo /\ cube = IdleCube /\ ret = IdleRet

\* The first statements of georeference_satellite_swath.
DetectResolution ==
    /\ ~IsSome(swath.res)
    /\ swath' = [swath EXCEPT !.res = Some(detect_resolution(swath.data, swath.lats))]
    /\ UNCHANGED <<layout, geo, cube, ret, ctx, gcps, plane>>

\* Its last statements, reached when the resolution was found.
DeriveGeotransform ==
    /\ IsSome(swath.res) /\ Get(swath.res).err = "ok"
    /\ ~IsSome(swath.gtrans)
    /\ swath' = [swath EXCEPT
                   !.gtrans = Some(derived_geotransform(Get(swath.res), swath.extent))]
    /\ UNCHANGED <<layout, geo, cube, ret, ctx, gcps, plane>>

ResolutionNext == DetectResolution \/ DeriveGeotransform

SpecResolution == ResolutionInit /\ [][ResolutionNext]_vars

\* The largest and the smallest latitude of the whole backplane.
MaxLatitude(lats) ==
    CHOOSE x \in {lats.data[at] : at \in DOMAIN lats.data} :
       \A at \in DOMAIN lats.data : ~RLt(x, lats.data[at])

MinLatitude(lats) ==
    CHOOSE x \in {lats.data[at] : at \in DOMAIN lats.data} :
       \A at \in DOMAIN lats.data : ~RLt(lats.data[at], x)

\* (maximum latitude - minimum latitude) / height in rows.
LatitudeSpan(lats) ==
    RDiv(RSub(MaxLatitude(lats), MinLatitude(lats)), R(lats.shape[1]))

\* The estimate and the geotransform derived from it are the given value.
Estimated(dpp) ==
    /\ Get(swath.res).deg_per_pix = dpp
    /\ IsSome(swath.gtrans) =>
          /\ Get(swath.gtrans).xres = dpp
          /\ Get(swath.gtrans).yres = RNeg(dpp)

\* The statement of C27 as it was made: for every backplane, the estimate
\* is (maximum latitude - minimum latitude) / height and is not negative.
C27_WholeBackplane ==
    IsSome(swath.res) =>
        /\ Estimated(LatitudeSpan(swath.lats))
        /\ ~RLt(Get(swath.res).deg_per_pix, R(0))

\* The first row of the backplane holds its largest latitude and the last
\* row its smallest.
NorthUpBackplane(lats) ==
    /\ \E j \in 0..(lats.shape[2] - 1) : lats.data[<<0, j>>] = MaxLatitude(lats)
    /\ \E j \in 0..(lats.shape[2] - 1) :
          lats.data[<<lats.shape[1] - 1, j>>] = MinLatitude(lats)

\* C27 (amended): for every north-up backplane, the estimate used for the
\* output grid and the derived geotransform is (maximum latitude - minimum
\* latitude) / height and is not negative.
C27_NorthUpBackplane ==
    (IsSome(swath.res) /\ NorthUpBackplane(swath.lats)) =>
        /\ Estimated(LatitudeSpan(swath.lats))
        /\ ~RLt(Get(swath.res).deg_per_pix, R(0))

\* A geotransform was derived from a slanted north-up backplane of more
\* than one row and column.
C27_Witness ==
    /\ IsSome(swath.gtrans)
    /\ NorthUpBackplane(swath.lats)
    /\ swath.lats.shape[1] > 1 /\ swath.lats.shape[2] > 1
    /\ swath.lats.data[<<0, 0>>] # swath.lats.data[<<0, 1>>]
    /\ RLt(R(0), Get(swath.gtrans).xres)
    /\ Get(swath.gtrans).xres = LatitudeSpan(swath.lats)


(***************************************************************************)
(* Properties of reset_mask on a cube whose mask was never read (SpecMask) *)
(***************************************************************************)
\* The masks of the cube have the extents of its buffer.
MaskFitsBuffer(self) ==
    /\ IsSome(self.mask)
    /\ IsSome(Get(self.mask).xymask) /\ IsSome(Get(self.mask).zmask)
    /\ Get(Get(self.mask).xymask).shape
          = <<BufferSize(self).nrows, BufferSize(self).ncolumns>>
    /\ Get(Get(self.mask).zmask).shape = <<BufferSize(self).nbands>>

\* C30: reset_mask(which), which in {both, xy, z}, succeeds on every cube
\* with a buffer, whatever preceded it, and leaves masks of the extents of
\* the buffer in which the mask that was reset excludes nothing.
C30_ResetSucceeds ==
    [][(ret'.op = "reset_mask" /\ HasBuffer(cube)) =>
          \A which \in {"both", "xy", "z"} :
             cube' = reset_mask(cube, which).self
             /\ ret'.err = reset_mask(cube, which).err
             => /\ ret'.err = "ok"
                /\ MaskFitsBuffer(cube')
                /\ which \in {"both", "xy"} => AllFalse(Get(Get(cube'.mask).xymask))
                /\ which \in {"both", "z"} => AllFalse(Get(Get(cube'.mask).zmask))]_vars

\* reset_mask has raised AttributeError on a cube that holds a buffer and
\* whose mask was never read: the cube has no _builder and no mask.
C30_NoBuilder ==
    /\ ret.op = "reset_mask" /\ ret.err = "AttributeError"
    /\ Consistent(cube)
    /\ ~IsSome(cube.builder) /\ ~IsSome(cube.mask)

\* The same claim for reset_mask("xy") and reset_mask("z"), which read the
\* mask before they use _builder, on the cubes whose recorded shape is that
\* of the buffer and whose mask, if any, has its extents.
C30_ResetOneMask ==
    [][(ret'.op = "reset_mask" /\ Consistent(cube)) =>
          \A which \in {"xy", "z"} :
             cube' = reset_mask(cube, which).self
             /\ ret'.err = reset_mask(cube, which).err
             => /\ ret'.err = "ok"
                /\ MaskFitsBuffer(cube')
                /\ which = "xy" => AllFalse(Get(Get(cube'.mask).xymask))
                /\ which = "z" => AllFalse(Get(Get(cube'.mask).zmask))]_vars


(***************************************************************************)
(* SpecNodata: a CubeData that is assigned buffers with nodata samples,    *)
(* masked by them, read and reset.  SpecMasked: the same cube, also        *)
(* transposed and given a geotransform                                     *)
(***************************************************************************)
\* A size of fewer rows than CubicSize with the same columns and bands.
FlatSize == CubeSize(MaxDim - 1, MaxDim, MaxDim)

\* The (row, column, band) that a physical index of a layout is.
SemanticIndex(format, idx) ==
    <<idx[FORMAT_INDICES[format].row + 1], idx[FORMAT_INDICES[format].col + 1],
      idx[FORMAT_INDICES[format].band + 1]>>

\* The buffer of the given size in the given layout whose sample at (row,
\* column, band) is the code of (row, column, band), or nodata in a hole.
Sampled(size, format, holes, nodata) ==
    DataArray(<<"dim_0", "dim_1", "dim_2">>, as_tuple(size, format), "int64",
              [idx \in IdxN(as_tuple(size, format)) |->
                 IF SemanticIndex(format, idx) \in holes THEN nodata
                 ELSE Code(SemanticIndex(format, idx))])

\* Nodata in band 0 of the first cell; or in band 0 of the last cell and in
\* the last band of the first cell.
Holes(size) ==
    {{<<0, 0, 0>>},
     {<<size.nrows - 1, size.ncolumns - 1, 0>>, <<0, 0, size.nbands - 1>>}}

NodataBuffers(self) ==
    UNION {{Sampled(size, self.fmt, holes, self.nodata) : holes \in Holes(size)} :
             size \in {CubicSize, FlatSize}}

NodataInit ==
    /\ cube \in {CubeData(f, None, None, None, "XAxis", "YAxis", "ZAxis", g, DefaultNodata) :
                   f \in cube_array_formats, g \in {None, Some(CubeGeotransform)}}
    /\ ret = Call("CubeData", Done(cube))
    /\ layout = IdleLayout
    /\ geo = IdleGeo
    /\ IdleTools

AssignBuffer ==
    /\ \E value \in NodataBuffers(cube) :
          \E r \in {array_setter(cube, value)} :
             cube' = r.self /\ ret' = Call("array.setter", r)
    /\ UNCHANGED <<layout, geo, ctx, gcps, plane, swath>>

AddNodataMask ==
    /\ \E r \in {add_nodata_mask(cube)} :
          cube' = r.self /\ ret' = Call("add_nodata_mask", r)
    /\ UNCHANGED <<layout, geo, ctx, gcps, plane, swath>>

GetUnmaskedArray ==
    /\ \E ignore \in {"both", "xy", "z"} :
          \E r \in {get_unmasked_array(cube, ignore)} :
             cube' = r.self /\ ret' = Call("get_unmasked_array", r)
    /\ UNCHANGED <<layout, geo, ctx, gcps, plane, swath>>

NodataNext ==
    AssignBuffer \/ ReadArray \/ AddNodataMask \/ ResetMask

SpecNodata == NodataInit /\ [][NodataNext]_vars

MaskedNext ==
    \/ AssignBuffer \/ ReadArray \/ AddNodataMask \/ ResetMask
    \/ TransposeTo \/ SetGeotransform \/ GetUnmaskedArray

SpecMasked == NodataInit /\ [][MaskedNext]_vars


\* The sample of band 0 at (row r, column c) is the nodata value.
NodataAt(self, r, c) == SampleAt(Get(self.array), self.fmt, r, c, 0) = self.nodata

\* after is before with the nodata grid of band 0 ORed into the spatial
\* mask and the spectral mask as it was.
NodataAdded(before, after) ==
    /\ IsSome(after.mask)
    /\ Get(Get(after.mask).xymask).shape
          = <<BufferSize(before).nrows, BufferSize(before).ncolumns>>
    /\ \A r \in 0..(BufferSize(before).nrows - 1), c \in 0..(BufferSize(before).ncolumns - 1) :
          Get(Get(after.mask).xymask).data[<<r, c>>]
             = (Get(MaskOf(before).xymask).data[<<r, c>>] \/ NodataAt(before, r, c))
    /\ Get(after.mask).zmask = MaskOf(before).zmask
    /\ after.array = before.array

\* C24: in every layout, add_nodata_mask on a cube whose recorded shape
\* and mask are those of its buffer succeeds and ORs into the spatial mask
\* the (rows x columns) grid that is true where the sample of band 0 is
\* the nodata value; the spectral mask is unchanged.
C24_NodataMask ==
    [][(ret'.op = "add_nodata_mask" /\ Consistent(cube))
       => (ret'.err = "ok" /\ NodataAdded(cube, cube'))]_vars

\* add_nodata_mask has raised ValueError on a BIL cube that holds a nodata
\* sample in band 0, and the cell is not excluded.
C24_RefusedInBIL ==
    /\ ret.op = "add_nodata_mask" /\ ret.err = "ValueError"
    /\ cube.fmt = "BIL"
    /\ Consistent(cube)
    /\ NodataAt(cube, 0, 0)
    /\ ~Get(MaskOf(cube).xymask).data[<<0, 0>>]

\* The same claim for the BIP layout, whose last axis is the band axis.
C24_NodataMaskBIP ==
    [][(ret'.op = "add_nodata_mask" /\ Consistent(cube) /\ cube.fmt = "BIP")
       => (ret'.err = "ok" /\ NodataAdded(cube, cube'))]_vars

\* Two buffers have each added a cell to the spatial mask of a BIP cube.
C24_NodataMaskBIP_Witness ==
    /\ ret.op = "add_nodata_mask" /\ ret.err = "ok"
    /\ cube.fmt = "BIP"
    /\ Consistent(cube)
    /\ Cardinality(TrueCells(Get(MaskOf(cube).xymask))) = 2
    /\ ~NodataAt(cube, 0, 0)


\* C29: in every state of a cube with a buffer, the spatial mask has the
\* shape (rows, columns) and the spectral mask the length bands of the
\* buffer, and reading array does not fail.
C29_MaskFitsBuffer ==
    HasBuffer(cube) =>
        /\ IsSome(cube.mask) => MaskFitsBuffer(cube)
        /\ array_getter(cube).err = "ok"

\* A second buffer of fewer rows was assigned to a cube whose mask was
\* created for the first: the mask has the extents of the first buffer and
\* reading array raises ValueError.
C29_StaleMask ==
    /\ ret.op = "array.setter" /\ ret.err = "ok"
    /\ HasBuffer(cube)
    /\ cube.shape = Some(FlatSize) /\ BufferSize(cube) = FlatSize
    /\ IsSome(cube.mask)
    /\ Get(cube.mask).shape = CubicSize
    /\ Get(Get(cube.mask).xymask).shape = <<CubicSize.nrows, CubicSize.ncolumns>>
    /\ array_getter(cube).err = "ValueError"

\* The same claim on the states where the recorded shape and the shape the
\* mask was built for, if it was built, are those of the buffer.
C29_OneSize ==
    (HasBuffer(cube) /\ cube.shape = Some(BufferSize(cube))
     /\ (IsSome(cube.mask) => Get(cube.mask).shape = BufferSize(cube)))
    => /\ IsSome(cube.mask) => MaskFitsBuffer(cube)
       /\ array_getter(cube).err = "ok"


\* The sample that the buffers assigned hold at (row, column, band): the
\* code of the position, or the nodata value.
Original(self, p, sample) == sample \in {Code(p), self.nodata}

\* The axes of the buffer carry the cube's dimension names in the order of
\* the cube's layout: no refused operation has left the layout or the names
\* of another buffer behind.
InLayout(self) ==
    /\ AxisName(Get(self.array), self.fmt, "row") = self.ydim_name
    /\ AxisName(Get(self.array), self.fmt, "col") = self.xdim_name
    /\ AxisName(Get(self.array), self.fmt, "band") = self.zdim_name

\* C28: after a reset_mask that leaves both masks excluding nothing,
\* whatever accumulations, transpositions and geotransform assignments came
\* before, get_unmasked_array("both") and array return the sample that was
\* assigned at every (row, column, band).
C28_BufferKept ==
    (/\ ret.op = "reset_mask" /\ ret.err = "ok"
     /\ Consistent(cube) /\ InLayout(cube) /\ TransparentMask(cube)) =>
        /\ get_unmasked_array(cube, "both").err = "ok"
        /\ array_getter(cube).err = "ok"
        /\ \A p \in Positions(BufferSize(cube)) :
              /\ Original(cube, p, SampleAt(Get(get_unmasked_array(cube, "both").value),
                                            cube.fmt, p[1], p[2], p[3]))
              /\ Original(cube, p, SampleAt(Get(array_getter(cube).value),
                                            cube.fmt, p[1], p[2], p[3]))

\* The mask was reset and excludes nothing, and the buffer holds NaN in
\* every band of a cell: the cell was excluded when the cube was
\* transposed or given a geotransform.
C28_NaNStored ==
    /\ ret.op = "reset_mask" /\ ret.err = "ok"
    /\ Consistent(cube) /\ InLayout(cube)
    /\ TransparentMask(cube)
    /\ \E r \in 0..(BufferSize(cube).nrows - 1), c \in 0..(BufferSize(cube).ncolumns - 1) :
          \A b \in 0..(BufferSize(cube).nbands - 1) :
             /\ SampleAt(Get(cube.array), cube.fmt, r, c, b) = NaN
             /\ SampleAt(Get(get_unmasked_array(cube, "both").value), cube.fmt, r, c, b) = NaN

\* The same claim for the operations that do not assign the buffer: a
\* mask accumulation, a reset and a read leave the buffer as it is.
C28_MaskingKeepsBuffer ==
    [][ret'.op \in {"add_nodata_mask", "reset_mask", "array", "get_unmasked_array"}
       => cube'.array = cube.array]_vars

\* Cells are excluded and the buffer still holds their samples.
C28_MaskingKeepsBuffer_Witness ==
    /\ ret.op = "add_nodata_mask" /\ ret.err = "ok"
    /\ Consistent(cube)
    /\ TrueCells(Get(MaskOf(cube).xymask)) # {}
    /\ \A p \in Positions(BufferSize(cube)) :
          Original(cube, p, SampleAt(Get(cube.array), cube.fmt, p[1], p[2], p[3]))

====
